---- MODULE Spec2Model ----
(***************************************************************************)
(* PDFTranslate2md: the resilience layer of the page translator.           *)
(*                                                                         *)
(*   src/src/rate_limiter.py        RateLimiter                            *)
(*   src/src/retry_manager.py       RetryManager                           *)
(*   src/src/translator_service.py  TranslatorService                      *)
(*   src/src/unicode_handler.py     normalize_unicode_text                 *)
(*   src/src/providers/             OpenAI, Anthropic, Gemini providers    *)
(*   src/src/app_controller.py      AppController                          *)
(*   src/gui/gui_app_controller.py  GuiAppController                       *)
(*   src/src/main.py                process_pdf over translator.py         *)
(*                                                                         *)
(* Specifications:                                                         *)
(*   SpecWait  calculate_dynamic_wait_time and the handlers' wait formulas *)
(*   SpecHdr   clean_markdown_headers on bounded texts                     *)
(*   SpecRL    RateLimiter under concurrent callers                        *)
(*   SpecPage  translate_page, page after page, over one provider          *)
(*   SpecUni   normalize_unicode_text on bounded texts                     *)
(*   SpecProv  one provider.translate call, its retries and its watchdog   *)
(*   SpecProvLive  SpecProv with every thread of the call going on         *)
(*   SpecDoc   construction and the per-document loop of the front ends    *)
(*   SpecRLOps every RateLimiter operation, called by one client          *)
(*   SpecRLLive one RateLimiter operation per thread, with fairness       *)
(*   SpecInst  one Provider instance, its client and its worker threads   *)
(* Times are whole seconds; waits computed with the float factors of       *)
(* calculate_dynamic_wait_time are kept in tenths of a second.             *)
(***************************************************************************)
EXTENDS Integers, Sequences, FiniteSets, TLC

VARIABLES
    \* ---- SpecWait
    wIn,        \* the arguments: [provider, retry_count, base_wait, retry_delay]
    wOut,       \* the results computed from wIn, or NoResult
    \* ---- SpecHdr
    hText,      \* the text handed to clean_markdown_headers (sequence of characters)
    hOut,       \* its return value
    hDone,      \* whether clean_markdown_headers has returned
    hHeaders,   \* the return value of extract_headers(hText)
    hExtracted, \* whether extract_headers has returned
    \* ---- RateLimiter (SpecRL, SpecPage)
    now,        \* time.time(), in seconds
    status,     \* RateLimiter._rate_limit_status: provider -> [hit, last_hit_time, waiting_period]
    lock,       \* RateLimiter._lock: the thread holding it, or NoThread
    \* ---- callers of RateLimiter (SpecRL)
    pc,         \* per thread: "idle", "locked", "sleeping", "done"
    op,         \* per thread: the RateLimiter call in progress
    wake,       \* per thread: when its time.sleep ends
    ret,        \* per thread: what its last call saw and returned
    \* ---- TranslatorService.translate_page (SpecPage)
    prov,       \* self.provider_name
    script,     \* what the provider's next translate calls do, in order
    ppc,        \* where translate_page stands: "idle", "gate_sleep", "invoke",
                \*   "h_marked", "handler_sleep"
    pageNo,     \* translate_page calls finished so far
    pwake,      \* when the sleep translate_page is in ends
    gate,       \* what the rate gate of this call read: the provider's state and the time
    callAt,     \* when this call last invoked the provider (0: not yet)
    pexc,       \* the failure this call's handler is dealing with, or NoExc
    hwait,      \* wait_time computed by the handler (0: none)
    htrace,     \* what the handler has done so far: "mark", "record", "sleep", "raise"
    result,     \* outcome of the last finished translate_page call
    opc,        \* the handler of an abandoned earlier call: "off", "marked", "recorded"
    \* ---- unicode_handler.normalize_unicode_text (SpecUni)
    uText,      \* the text handed to normalize_unicode_text (sequence of code points)
    uMode,      \* its aggressive argument
    uOut,       \* (text, modified) returned for uText
    uAgain,     \* (text, modified) returned for uOut.text
    uStep,      \* normalize_unicode_text calls made so far
    uSan,       \* the text translate_page embeds in its prompt for uText, once sanitized
    \* ---- one provider.translate call under _call_provider_with_retry (SpecProv)
    vendor,     \* which provider class: "openai", "anthropic", "gemini"
    prompt,     \* the prompt handed to provider.translate (sequence of code points)
    vscript,    \* what the vendor API does on its first calls, in order
    vcalls,     \* vendor API calls made so far
    vsteady,    \* what it does afterwards, by the prompt sent: "original" or "normalized"
    attempt,    \* attempt number of the retry decorator of translate
    prpc,       \* "attempt", "provider_sleep", "failed", "returned", "raised", "page_done",
                \*   "timed_out"
    round,      \* 1: the call made by api_call_worker; 2: the one made by handle_unicode_error
    pstatus,    \* provider._rate_limit_status
    prStart,    \* start_time of the watchdog loop
    prOut,      \* what the last attempt returned or raised
    prWaits,    \* the waits the retry decorator has inserted so far
    pageRes,    \* what translate_page returns or raises for this call
    \* ---- one document through a per-document loop (SpecDoc)
    dEntry,     \* whose loop: "app_controller", "gui", "main"
    dName,      \* the provider name the program was started with
    dKey,       \* whether the environment holds the API key of that provider
    dExists,    \* whether the output .md file already exists
    dForce,     \* force_overwrite
    dTotal,     \* total_pages = len(pages)
    dpc,        \* "new", "failed", "ready", "loop", "written", "skipped", "no_text",
                \*   "cancelled"
    dErr,       \* what construction raised, or "none"
    translated_pages,  \* the page bodies collected so far
    all_headers,       \* the headers collected so far
    dCancelled, \* current_thread._is_cancelled
    dKeyReports, \* page translation calls that reported the missing API key
    dCall,      \* the pass of the loop: "none", "checked" (flag tested), "running" (in the call)
    dArgs,      \* the page translation calls started so far: what each was handed
    dReturns,   \* what the finished page translation calls gave back, in order
    \* ---- one client of the RateLimiter and of the module's names (SpecRLOps)
    rcall,      \* the RateLimiter method the client is inside, or NoOp
    rlog,       \* the last write to the status dictionary or finished call
    \* ---- one Provider instance and the threads that call it (SpecInst)
    cClient,    \* the instance's client attribute: 0 is None, n the n-th object created
    cCreated,   \* clients created so far
    cW,         \* per worker thread: where it is inside translate
    cCur        \* the worker _call_provider_with_retry is waiting for (0: none)

wVars == <<wIn, wOut>>
hVars == <<hText, hOut, hDone, hHeaders, hExtracted>>
rlVars == <<now, status, lock>>
thVars == <<pc, op, wake, ret>>
pgVars == <<prov, script, ppc, pageNo, pwake, gate, callAt, pexc, hwait, htrace, result, opc>>
uVars == <<uText, uMode, uOut, uAgain, uStep, uSan>>
prVars == <<vendor, prompt, vscript, vcalls, vsteady, attempt, prpc, round, pstatus, prStart, prOut,
            prWaits, pageRes>>
\* the variables of the specifications that follow SpecPage
dVars == <<dEntry, dName, dKey, dExists, dForce, dTotal, dpc, dErr, translated_pages, all_headers,
           dCancelled, dKeyReports, dCall, dArgs, dReturns>>
\* the variables of the specifications that follow SpecProv
roVars == <<rcall, rlog>>
cVars == <<cClient, cCreated, cW, cCur>>
yVars == <<dVars, roVars, cVars>>
xVars == <<uVars, prVars, yVars>>
vars == <<wIn, wOut, hText, hOut, hDone, hHeaders, hExtracted, now, status, lock, pc, op, wake, ret,
          prov, script, ppc, pageNo, pwake, gate, callAt, pexc, hwait, htrace, result, opc,
          uText, uMode, uOut, uAgain, uStep, uSan,
          vendor, prompt, vscript, vcalls, vsteady, attempt, prpc, round, pstatus, prStart, prOut,
          prWaits, pageRes,
          dEntry, dName, dKey, dExists, dForce, dTotal, dpc, dErr, translated_pages, all_headers,
          dCancelled, dKeyReports, dCall, dArgs, dReturns, rcall, rlog,
          cClient, cCreated, cW, cCur>>

NoResult == [kind |-> "none"]

Min(a, b) == IF a <= b THEN a ELSE b

(***************************************************************************)
(* RateLimiter.calculate_dynamic_wait_time                                 *)
(***************************************************************************)
KnownProviders == {"gemini", "openai", "anthropic", "claude"}
Providers == KnownProviders \cup {"custom"}

\* one second, in the unit the float-valued waits are kept in
Tenths == 10

\* provider_factors, times Tenths (1.0 -> 10, 1.2 -> 12); .get(provider, 1.0)
provider_factor(provider) ==
    IF provider = "openai" THEN 12 ELSE 10

max_wait == 300

\* the formula without the cap (a wait that grows without limit)
calculate_dynamic_wait_time_nocap(provider, retry_count, base_wait) ==
    base_wait * provider_factor(provider)
        + (retry_count * retry_count * 10 * provider_factor(provider))

\* result in tenths of a second
calculate_dynamic_wait_time(provider, retry_count, base_wait) ==
    LET factor == provider_factor(provider)
        wait_time == base_wait * factor + (retry_count * retry_count * 10 * factor)
    IN  Min(wait_time, max_wait * Tenths)

(***************************************************************************)
(* The wait the failure handlers record and sleep (seconds).               *)
(* retry_delay = 0 stands for "the vendor supplied no retry_delay".        *)
(***************************************************************************)
\* RetryManager.handle_http_error, status 429
http_wait_time(retry_count, retry_delay) ==
    IF retry_delay > 0 THEN retry_delay + 10
    ELSE 60 + (retry_count * retry_count * 10)

\* RetryManager.handle_resource_exhausted_error
resource_wait_time(retry_count, retry_delay) ==
    IF retry_delay > 0 THEN retry_delay + 5
    ELSE 60 + (retry_count * 20)

\* ---- bounds of SpecWait
MaxRetryCount == 6
BaseWaits == {0, 1, 30, 60, 299, 300}
RetryDelays == {0, 1, 30}

WaitInit ==
    /\ wIn \in [provider : Providers, retry_count : 0..MaxRetryCount,
                base_wait : BaseWaits, retry_delay : RetryDelays]
    /\ wOut = NoResult

ComputeWait ==
    /\ wOut = NoResult
    /\ wOut' = [kind     |-> "waits",
                dyn      |-> calculate_dynamic_wait_time(wIn.provider, wIn.retry_count, wIn.base_wait),
                dynNext  |-> calculate_dynamic_wait_time(wIn.provider, wIn.retry_count + 1, wIn.base_wait),
                http     |-> http_wait_time(wIn.retry_count, wIn.retry_delay),
                resource |-> resource_wait_time(wIn.retry_count, wIn.retry_delay)]
    /\ UNCHANGED <<wIn, hVars, rlVars, thVars, pgVars, xVars>>

(***************************************************************************)
(* TranslatorService.clean_markdown_headers                                *)
(* A text is a sequence of characters; "\n" separates lines.               *)
(***************************************************************************)
NL == "\n"
Alphabet == {"#", " ", "1", ".", NL}
IsDigit(c) == c = "1"
IsSpace(c) == c = " "

\* ---- bound of SpecHdr
MaxLen == 6

Texts == UNION {[1..n -> Alphabet] : n \in 0..MaxLen}

RECURSIVE Drop(_, _)
Drop(s, n) == IF n = 0 \/ s = <<>> THEN s ELSE Drop(Tail(s), n - 1)

Take(s, n) == SubSeq(s, 1, Min(n, Len(s)))

\* number of leading characters of s that satisfy the class
RECURSIVE SpanSpace(_)
SpanSpace(s) == IF s # <<>> /\ IsSpace(Head(s)) THEN 1 + SpanSpace(Tail(s)) ELSE 0
RECURSIVE SpanHash(_)
SpanHash(s) == IF s # <<>> /\ Head(s) = "#" THEN 1 + SpanHash(Tail(s)) ELSE 0
RECURSIVE SpanDigit(_)
SpanDigit(s) == IF s # <<>> /\ IsDigit(Head(s)) THEN 1 + SpanDigit(Tail(s)) ELSE 0

\* text.split('\n')
RECURSIVE split(_)
split(text) ==
    IF \A i \in 1..Len(text) : text[i] # NL THEN <<text>>
    ELSE LET k == CHOOSE i \in 1..Len(text) :
                      text[i] = NL /\ \A j \in 1..(i - 1) : text[j] # NL
         IN  <<SubSeq(text, 1, k - 1)>> \o split(SubSeq(text, k + 1, Len(text)))

\* '\n'.join(lines)
RECURSIVE join(_)
join(lines) ==
    IF lines = <<>> THEN <<>>
    ELSE IF Len(lines) = 1 THEN lines[1]
    ELSE lines[1] \o <<NL>> \o join(Tail(lines))

lstrip(line) == Drop(line, SpanSpace(line))

\* re.sub(r'^#+\s*', '', trimmed_line), for a line that starts with '#'
strip_marker(trimmed_line) ==
    LET rest == Drop(trimmed_line, SpanHash(trimmed_line))
    IN  Drop(rest, SpanSpace(rest))

\* length of the longest prefix of s of the shape \d+(\.\d+)* ; 0 if none
RECURSIVE LabelLen(_)
LabelLen(s) ==
    LET d == SpanDigit(s)
        rest == Drop(s, d)
    IN  IF d = 0 THEN 0
        ELSE IF Len(rest) >= 2 /\ rest[1] = "." /\ IsDigit(rest[2])
             THEN d + 1 + LabelLen(Tail(rest))
             ELSE d

\* re.match(r'^(\d+(\.\d+)*)\s', header_text): the greedy match can only end
\* after the longest label, and only when a whitespace character follows
section_match(header_text) ==
    LET n == LabelLen(header_text)
    IN  n > 0 /\ Len(header_text) > n /\ IsSpace(header_text[n + 1])

\* match.group(1)
section_num(header_text) == Take(header_text, LabelLen(header_text))

\* section_num.count('.')
count_dots(s) == Cardinality({i \in 1..Len(s) : s[i] = "."})

hashes(n) == [i \in 1..n |-> "#"]

\* header level taken as the number of dots, without the + 1
clean_line_level_off_by_one(line) ==
    LET trimmed_line == lstrip(line)
        header_text == strip_marker(trimmed_line)
    IN  IF trimmed_line # <<>> /\ Head(trimmed_line) = "#" /\ section_match(header_text)
        THEN hashes(count_dots(section_num(header_text))) \o <<" ">> \o header_text
        ELSE line

\* the body of the loop over the lines
clean_line(line) ==
    LET trimmed_line == lstrip(line)
        header_text == strip_marker(trimmed_line)
    IN  IF trimmed_line # <<>> /\ Head(trimmed_line) = "#"
        THEN IF section_match(header_text)
             THEN LET header_level == count_dots(section_num(header_text)) + 1
                  IN  hashes(header_level) \o <<" ">> \o header_text
             ELSE line
        ELSE line

clean_markdown_headers(text) ==
    LET lines == split(text)
    IN  join([i \in 1..Len(lines) |-> clean_line(lines[i])])

HdrInit ==
    /\ hText \in Texts
    /\ hOut = <<>>
    /\ hDone = FALSE
    /\ hHeaders = <<>>
    /\ hExtracted = FALSE

CleanHeaders ==
    /\ ~hDone
    /\ hOut' = clean_markdown_headers(hText)
    /\ hDone' = TRUE
    /\ UNCHANGED <<hText, hHeaders, hExtracted, wVars, rlVars, thVars, pgVars, xVars>>


(***************************************************************************)
(* RateLimiter: the operations as functions of the status dictionary.      *)
(***************************************************************************)
DefaultStatus == [hit |-> FALSE, last_hit_time |-> 0, waiting_period |-> 0]

\* RateLimiter.__init__
InitialStatus == [p \in KnownProviders |-> DefaultStatus]

\* "if provider not in self._rate_limit_status: ... = default"
ensure(st, p) == IF p \in DOMAIN st THEN st ELSE (p :> DefaultStatus) @@ st

get_status(st, p) == ensure(st, p)

set_rate_limit_hit_first_only(st, p, t) ==
    IF p \in DOMAIN st /\ st[p].hit THEN st
    ELSE [ensure(st, p) EXCEPT ![p].hit = TRUE, ![p].last_hit_time = t]

set_rate_limit_hit(st, p, t) ==
    [ensure(st, p) EXCEPT ![p].hit = TRUE, ![p].last_hit_time = t]

set_waiting_period(st, p, waiting_period) ==
    [ensure(st, p) EXCEPT ![p].waiting_period = waiting_period]

reset_rate_limit(st, p) ==
    IF p \notin DOMAIN st THEN ensure(st, p)
    ELSE [st EXCEPT ![p].hit = FALSE, ![p].waiting_period = 0]

clear_all_limits_to_initial(st) == [p \in DOMAIN st \cap {"gemini", "openai", "anthropic", "claude"} |-> DefaultStatus]

clear_all_limits(st) == [p \in DOMAIN st |-> DefaultStatus]

\* check_and_wait_if_needed sleeping for the time already elapsed instead of
\* the time remaining
check_and_wait_if_needed_sleeps_elapsed(st, p, t) ==
    IF p \notin DOMAIN st THEN [status |-> ensure(st, p), sleep |-> 0, value |-> FALSE]
    ELSE IF ~st[p].hit THEN [status |-> st, sleep |-> 0, value |-> FALSE]
    ELSE LET elapsed_since_hit == t - st[p].last_hit_time
             waiting_period == st[p].waiting_period
         IN  IF elapsed_since_hit < waiting_period
             THEN [status |-> st, sleep |-> elapsed_since_hit, value |-> TRUE]
             ELSE [status |-> [st EXCEPT ![p].hit = FALSE], sleep |-> 0, value |-> FALSE]

\* check_and_wait_if_needed at time t: the new dictionary, the seconds to
\* sleep with the lock released (0: no sleep) and the value returned
check_and_wait_if_needed(st, p, t) ==
    IF p \notin DOMAIN st THEN [status |-> ensure(st, p), sleep |-> 0, value |-> FALSE]
    ELSE IF ~st[p].hit THEN [status |-> st, sleep |-> 0, value |-> FALSE]
    ELSE LET elapsed_since_hit == t - st[p].last_hit_time
             waiting_period == st[p].waiting_period
             remaining_wait == waiting_period - elapsed_since_hit
         IN  IF elapsed_since_hit < waiting_period
             THEN IF remaining_wait > 0
                  THEN [status |-> st, sleep |-> remaining_wait, value |-> TRUE]
                  ELSE [status |-> st, sleep |-> 0, value |-> FALSE]
             ELSE [status |-> [st EXCEPT ![p].hit = FALSE], sleep |-> 0, value |-> FALSE]

(***************************************************************************)
(* SpecRL: threads calling the RateLimiter.  Every method body runs under  *)
(* "with self._lock"; check_and_wait_if_needed gives the lock up around    *)
(* its sleep.                                                              *)
(***************************************************************************)
NoThread == "none"
Threads == {"A", "B"}
RLProviders == {"gemini", "custom"}
OpNames == {"get_status", "set_rate_limit_hit", "set_waiting_period",
            "reset_rate_limit", "check_and_wait_if_needed", "clear_all_limits"}

\* ---- bounds of SpecRL
MaxTime == 3
MaxWait == 2

NoOp == [name |-> "none", provider |-> "none", arg |-> 0]
NoRet == [name |-> "none"]

\* the holder of the lock while a thread sleeps without releasing it
lock_during_sleep_held(t) == t

\* the holder of the lock while thread t is in time.sleep: release() came first
lock_during_sleep(t) == NoThread

RLInit ==
    /\ now = 1
    /\ status = InitialStatus
    /\ lock = NoThread
    /\ pc = [t \in Threads |-> "idle"]
    /\ op = [t \in Threads |-> NoOp]
    /\ wake = [t \in Threads |-> 0]
    /\ ret = [t \in Threads |-> NoRet]

\* time passes
Tick ==
    /\ now < MaxTime
    /\ now' = now + 1
    /\ UNCHANGED <<status, lock, thVars, wVars, hVars, pgVars, xVars>>

\* a thread calls a method and enters "with self._lock"
Acquire(t, name, p, d) ==
    /\ pc[t] = "idle"
    /\ lock = NoThread
    /\ lock' = t
    /\ pc' = [pc EXCEPT ![t] = "locked"]
    /\ op' = [op EXCEPT ![t] = [name |-> name, provider |-> p, arg |-> d]]
    /\ UNCHANGED <<now, status, wake, ret, wVars, hVars, pgVars, xVars>>

\* what a caller saw of provider p
Seen(st, p) == IF p \in DOMAIN st THEN st[p] ELSE DefaultStatus

\* the body of a method other than check_and_wait_if_needed, then the release
Body(t) ==
    /\ pc[t] = "locked"
    /\ op[t].name \in OpNames \ {"check_and_wait_if_needed"}
    /\ LET p == op[t].provider
           st == CASE op[t].name = "get_status" -> get_status(status, p)
                   [] op[t].name = "set_rate_limit_hit" -> set_rate_limit_hit(status, p, now)
                   [] op[t].name = "set_waiting_period" -> set_waiting_period(status, p, op[t].arg)
                   [] op[t].name = "reset_rate_limit" -> reset_rate_limit(status, p)
                   [] op[t].name = "clear_all_limits" -> clear_all_limits(status)
       IN  /\ status' = st
           /\ ret' = [ret EXCEPT ![t] =
                        [name |-> op[t].name, provider |-> p,
                         value |-> IF op[t].name = "get_status" THEN st[p] ELSE DefaultStatus]]
    /\ lock' = NoThread
    /\ pc' = [pc EXCEPT ![t] = "done"]
    /\ UNCHANGED <<now, op, wake, wVars, hVars, pgVars, xVars>>

\* check_and_wait_if_needed up to its return or to the start of its sleep
CheckBody(t) ==
    /\ pc[t] = "locked"
    /\ op[t].name = "check_and_wait_if_needed"
    /\ LET p == op[t].provider
           r == check_and_wait_if_needed(status, p, now)
           seen == [name |-> op[t].name, provider |-> p, value |-> r.value,
                    slept |-> r.sleep > 0, snap |-> Seen(status, p), called |-> now,
                    hit_after |-> r.status[p].hit]
       IN  /\ status' = r.status
           /\ ret' = [ret EXCEPT ![t] = seen]
           /\ IF r.sleep > 0
              THEN /\ lock' = lock_during_sleep(t)
                   /\ pc' = [pc EXCEPT ![t] = "sleeping"]
                   /\ wake' = [wake EXCEPT ![t] = now + r.sleep]
              ELSE /\ lock' = NoThread
                   /\ pc' = [pc EXCEPT ![t] = "done"]
                   /\ wake' = wake
    /\ UNCHANGED <<now, op, wVars, hVars, pgVars, xVars>>

\* the sleep is over: acquire() again, return True, leave the with block
WakeReturn(t) ==
    /\ pc[t] = "sleeping"
    /\ now >= wake[t]
    /\ lock \in {NoThread, t}
    /\ lock' = NoThread
    /\ pc' = [pc EXCEPT ![t] = "done"]
    /\ UNCHANGED <<now, status, op, wake, ret, wVars, hVars, pgVars, xVars>>

\* the caller goes on
Forget(t) ==
    /\ pc[t] = "done"
    /\ pc' = [pc EXCEPT ![t] = "idle"]
    /\ op' = [op EXCEPT ![t] = NoOp]
    /\ ret' = [ret EXCEPT ![t] = NoRet]
    /\ wake' = [wake EXCEPT ![t] = 0]
    /\ UNCHANGED <<now, status, lock, wVars, hVars, pgVars, xVars>>

(***************************************************************************)
(* TranslatorService.extract_headers                                       *)
(***************************************************************************)
RECURSIVE rstrip(_)
rstrip(s) == IF s # <<>> /\ IsSpace(s[Len(s)]) THEN rstrip(SubSeq(s, 1, Len(s) - 1)) ELSE s

\* line.strip()
strip(s) == rstrip(lstrip(s))

RECURSIVE headers_of(_)
headers_of(lines) ==
    IF lines = <<>> THEN <<>>
    ELSE LET stripped_line == strip(Head(lines))
         IN  (IF stripped_line # <<>> /\ Head(stripped_line) = "#"
              THEN <<stripped_line>> ELSE <<>>) \o headers_of(Tail(lines))

\* extract_headers appending the line as it stands
extract_headers_unstripped(text) == SelectSeq(split(text), LAMBDA line : strip(line) # <<>> /\ Head(strip(line)) = "#")

extract_headers(text) == headers_of(split(text))

\* extract_headers(text) called on the text of HdrInit
ExtractHeaders ==
    /\ ~hExtracted
    /\ hHeaders' = extract_headers(hText)
    /\ hExtracted' = TRUE
    /\ UNCHANGED <<hText, hOut, hDone, wVars, rlVars, thVars, pgVars, xVars>>

(***************************************************************************)
(* What one provider.translate call does: it returns a text, or raises.    *)
(*   status_code   the exception's own status_code attribute (0: none)     *)
(*   has_response  whether it carries a .response with .status_code/.json  *)
(*   retry_delay   seconds in response.json()['retry_delay'] (0: none)     *)
(*   says          a keyword found in the type name or in str(e)           *)
(***************************************************************************)
Exc(type, status_code, has_response, retry_delay, says) ==
    [type |-> type, status_code |-> status_code, has_response |-> has_response,
     retry_delay |-> retry_delay, says |-> says, text |-> <<>>]

Ok(text) ==
    [type |-> "ok", status_code |-> 0, has_response |-> FALSE,
     retry_delay |-> 0, says |-> "", text |-> text]

NoExc == Exc("none", 0, FALSE, 0, "")

\* texts a provider returns
Responses == { <<"#", " ", "1", ".", "1", " ">>, <<"1">> }

\* retry_delay values a vendor sends
VendorDelay == 30

Failures ==
    {Exc("RateLimitError", 0, FALSE, 0, "rate limit")}
    \cup {Exc("HTTPStatusError", c, FALSE, 0, "") : c \in {429, 503, 500}}
    \cup {Exc("HTTPStatusError", 429, TRUE, d, "") : d \in {0, VendorDelay}}
    \cup {Exc("HTTPStatusError", 503, TRUE, 0, "")}
    \cup {Exc("UnicodeEncodeError", 0, FALSE, 0, "")}
    \cup {Exc("ConnectionError", 0, FALSE, 0, "")}
    \cup {Exc("ResourceExhausted", 0, FALSE, 0, "ResourceExhausted")}
    \cup {Exc("ResourceExhausted", 0, TRUE, VendorDelay, "ResourceExhausted")}
    \cup {Exc("APIError", 0, FALSE, 0, k) : k \in {"", "429", "rate limit"}}
    \cup {Exc("DeadlineExceeded", 0, FALSE, 0, "DeadlineExceeded")}

Outcomes == {Ok(t) : t \in Responses} \cup Failures

\* once its script is used up the provider answers
DefaultOutcome == Ok(<<"1">>)

\* ---- bounds of SpecPage
MaxCalls == 2
MaxPages == 2

Scripts == UNION {[1..n -> Outcomes] : n \in 1..MaxCalls}
PageProviders == {"gemini", "openai"}
\* seconds between two translate_page calls
IdleTimes == {0, 100}
\* the clock is looked at every SleepStep seconds while a thread sleeps
SleepStep == 40

(***************************************************************************)
(* RetryManager                                                            *)
(***************************************************************************)
\* TranslatorService.__init__: RetryManager(max_retries=5, ...)
max_retries == 5

\* get_retry_count(func): the attempt number of func's tenacity decorator,
\* 1 when func has no 'retry' attribute
get_retry_count(has_retry_attr, attempt_number) ==
    IF has_retry_attr /\ attempt_number # 0 THEN attempt_number ELSE 1

\* which except clause of _call_provider_with_retry takes the exception, and
\* the handler it calls
handler_of(e) ==
    IF e.type = "RateLimitError" THEN "resource"
    ELSE IF e.type = "HTTPStatusError" THEN "http"
    ELSE IF e.type = "UnicodeEncodeError" THEN "unicode"
    ELSE IF e.type = "ResourceExhausted" \/ e.says \in {"ResourceExhausted", "429"}
         THEN "resource"
    ELSE IF e.type = "DeadlineExceeded" \/ e.says \in {"DeadlineExceeded", "504"}
         THEN "deadline"
    ELSE "general"

\* handle_http_error: e.response.status_code if the exception has a response, else 0
http_status_seen(e) == IF e.has_response THEN e.status_code ELSE 0

\* whether the handler goes through the rate-limit branch (mark, record, sleep)
rate_limit_branch(e) ==
    \/ handler_of(e) = "resource"
    \/ handler_of(e) = "http" /\ http_status_seen(e) = 429

\* retry_delay as the handlers read it from e.response.json()
retry_delay_of(e) == IF e.has_response THEN e.retry_delay ELSE 0

\* wait_time of the rate-limit branch
wait_time_of(e, retry_count) ==
    IF handler_of(e) = "http" THEN http_wait_time(retry_count, retry_delay_of(e))
    ELSE resource_wait_time(retry_count, retry_delay_of(e))

\* the exception that leaves _call_provider_with_retry
raised_by_handler(e) ==
    IF rate_limit_branch(e) THEN Exc("HTTPStatusError", 429, FALSE, 0, "429")
    ELSE IF handler_of(e) = "http" /\ http_status_seen(e) \in {503, 504}
         THEN Exc("HTTPStatusError", http_status_seen(e), FALSE, 0, "")
    ELSE IF handler_of(e) = "deadline" THEN Exc("HTTPStatusError", 504, FALSE, 0, "504")
    ELSE e

ErrorBody == <<"e", "r", "r">>

\* handle_retry_exception: re-raise while retries remain, else the error body
handle_retry_exception(e, remaining_retries) ==
    IF remaining_retries > 0
    THEN [kind |-> "raised", text |-> <<>>, headers |-> <<>>, exc |-> e]
    ELSE [kind |-> "error_body", text |-> ErrorBody, headers |-> <<>>, exc |-> NoExc]

\* translate_page, "except RETRY_EXCEPTIONS as e" (Exception is among them)
page_except(e) ==
    LET retry_count == get_retry_count(FALSE, 0)
        remaining == max_retries - retry_count
    IN  handle_retry_exception(e, remaining)

\* translate_page extracting the headers from the provider's text as returned
page_success_headers_of_raw(text) ==
    LET cleaned == clean_markdown_headers(text)
    IN  [kind |-> "ok", text |-> cleaned, headers |-> extract_headers(text), exc |-> NoExc]

\* translate_page after a successful provider call
page_success(text) ==
    LET cleaned == clean_markdown_headers(text)
    IN  [kind |-> "ok", text |-> cleaned, headers |-> extract_headers(cleaned), exc |-> NoExc]

(***************************************************************************)
(* TranslatorService.translate_page, one call after the other on one       *)
(* service, sharing global_rate_limiter with the handler of an abandoned   *)
(* earlier call (a worker thread left running by ProcessingThread.cancel). *)
(***************************************************************************)
NoGate == [hit |-> FALSE, last_hit_time |-> 0, waiting_period |-> 0, at |-> 0]

\* translate_page calling the provider without consulting the rate limiter
rate_gate_skipped(st, p, t) == [status |-> st, sleep |-> 0, value |-> FALSE]

\* translate_page: self.rate_limiter.check_and_wait_if_needed(self.provider_name)
rate_gate(st, p, t) == check_and_wait_if_needed(st, p, t)

NextOutcome == IF script = <<>> THEN DefaultOutcome ELSE Head(script)
RestScript == IF script = <<>> THEN <<>> ELSE Tail(script)

PageInit ==
    /\ now = 1
    /\ status = InitialStatus
    /\ lock = NoThread
    /\ prov \in PageProviders
    /\ script \in Scripts
    /\ ppc = "idle"
    /\ pageNo = 0
    /\ pwake = 0
    /\ gate = NoGate
    /\ callAt = 0
    /\ pexc = NoExc
    /\ hwait = 0
    /\ htrace = <<>>
    /\ result = NoResult
    /\ opc = "off"

\* translate_page is called dt seconds after the last call: the rate gate
StartPage(dt) ==
    /\ ppc = "idle"
    /\ pageNo < MaxPages
    /\ now' = now + dt
    /\ LET r == rate_gate(status, prov, now')
           seen == Seen(status, prov)
       IN  /\ status' = r.status
           /\ gate' = [hit |-> seen.hit, last_hit_time |-> seen.last_hit_time,
                       waiting_period |-> seen.waiting_period, at |-> now']
           /\ IF r.sleep > 0
              THEN ppc' = "gate_sleep" /\ pwake' = now' + r.sleep
              ELSE ppc' = "invoke" /\ pwake' = pwake
    /\ callAt' = 0
    /\ pexc' = NoExc
    /\ hwait' = 0
    /\ htrace' = <<>>
    /\ UNCHANGED <<lock, prov, script, pageNo, result, opc, thVars, wVars, hVars, xVars>>

\* time passes while translate_page sleeps
PageTick ==
    /\ ppc \in {"gate_sleep", "handler_sleep"}
    /\ now < pwake
    /\ now' = Min(now + SleepStep, pwake)
    /\ UNCHANGED <<status, lock, pgVars, thVars, wVars, hVars, xVars>>

\* the rate gate's sleep is over
GateWake ==
    /\ ppc = "gate_sleep"
    /\ now >= pwake
    /\ ppc' = "invoke"
    /\ UNCHANGED <<rlVars, prov, script, pageNo, pwake, gate, callAt, pexc, hwait,
                   htrace, result, opc, thVars, wVars, hVars, xVars>>

\* translate_page returns r or raises
Finish(r) ==
    /\ result' = r
    /\ ppc' = "idle"
    /\ pageNo' = pageNo + 1

\* _call_provider_with_retry: the provider call and, if it raises, the
\* handler up to its first sleep
Invoke ==
    /\ ppc = "invoke"
    /\ callAt' = now
    /\ LET o == NextOutcome
       IN  IF o.type = "ok"
           THEN /\ Finish(page_success(o.text))
                /\ script' = RestScript
                /\ UNCHANGED <<status, pexc, htrace>>
           ELSE IF rate_limit_branch(o)
           THEN /\ status' = set_rate_limit_hit(status, prov, now)
                /\ htrace' = <<"mark">>
                /\ pexc' = o
                /\ ppc' = "h_marked"
                /\ script' = RestScript
                /\ UNCHANGED <<pageNo, result>>
           ELSE IF handler_of(o) = "unicode"
           THEN \* handle_unicode_error: one more call if normalizing changed the prompt
                /\ pexc' = o
                /\ htrace' = <<"raise">>
                /\ UNCHANGED status
                /\ \E was_modified \in BOOLEAN :
                     LET rest == RestScript
                         o2 == IF rest = <<>> THEN DefaultOutcome ELSE Head(rest)
                     IN  IF was_modified
                         THEN /\ script' = (IF rest = <<>> THEN <<>> ELSE Tail(rest))
                              /\ IF o2.type = "ok"
                                 THEN Finish(page_success(o2.text))
                                 ELSE Finish(page_except(o))
                         ELSE /\ script' = rest
                              /\ Finish(page_except(o))
           ELSE /\ pexc' = o
                /\ htrace' = <<"raise">>
                /\ script' = RestScript
                /\ Finish(page_except(raised_by_handler(o)))
                /\ UNCHANGED status
    /\ UNCHANGED <<now, lock, prov, pwake, gate, hwait, opc, thVars, wVars, hVars, xVars>>

\* the rate-limit branch of the handler: set_waiting_period, then time.sleep
HandlerRecord ==
    /\ ppc = "h_marked"
    /\ LET retry_count == get_retry_count(FALSE, 0)
           wait_time == wait_time_of(pexc, retry_count)
       IN  /\ status' = set_waiting_period(status, prov, wait_time)
           /\ hwait' = wait_time
           /\ pwake' = now + wait_time
    /\ htrace' = Append(htrace, "record")
    /\ ppc' = "handler_sleep"
    /\ UNCHANGED <<now, lock, prov, script, pageNo, gate, callAt, pexc, result, opc,
                   thVars, wVars, hVars, xVars>>

\* the handler's sleep is over: it raises, and translate_page's except clause runs
HandlerWake ==
    /\ ppc = "handler_sleep"
    /\ now >= pwake
    /\ htrace' = htrace \o <<"sleep", "raise">>
    /\ Finish(page_except(raised_by_handler(pexc)))
    /\ UNCHANGED <<rlVars, prov, script, pwake, gate, callAt, pexc, hwait, opc,
                   thVars, wVars, hVars, xVars>>

\* the abandoned call's handler: rate_limiter.set_rate_limit_hit(llm_provider)
OrphanMark ==
    /\ opc = "off"
    /\ status' = set_rate_limit_hit(status, prov, now)
    /\ opc' = "marked"
    /\ UNCHANGED <<now, lock, prov, script, ppc, pageNo, pwake, gate, callAt, pexc,
                   hwait, htrace, result, thVars, wVars, hVars, xVars>>

\* the abandoned call's handler: rate_limiter.set_waiting_period(llm_provider, wait_time)
OrphanRecord ==
    /\ opc = "marked"
    /\ status' = set_waiting_period(status, prov, resource_wait_time(get_retry_count(FALSE, 0), 0))
    /\ opc' = "recorded"
    /\ UNCHANGED <<now, lock, prov, script, ppc, pageNo, pwake, gate, callAt, pexc,
                   hwait, htrace, result, thVars, wVars, hVars, xVars>>

(***************************************************************************)
(* unicode_handler.normalize_unicode_text                                  *)
(* A text is a sequence of code points:                                    *)
(*   "e" U+0065, "?" U+003F, "acute" U+0301 (combining), "eacute" U+00E9,  *)
(*   "me" U+1D41E (MATHEMATICAL BOLD SMALL E, a key of MATH_SYMBOL_MAPPING)*)
(*   "hs" U+D835 and "ls" U+DC1E (surrogate code points)                   *)
(***************************************************************************)
CodePoints == {"e", "?", "acute", "eacute", "me", "hs", "ls"}

\* the keys of MATH_SYMBOL_MAPPING among CodePoints
MathSymbols == {"me"}

\* MATH_SYMBOL_MAPPING[c]
MATH_SYMBOL_MAPPING(c) == IF c = "me" THEN "e" ELSE c

\* SURROGATE_PAIR_PATTERN: [\ud800-\udfff]
IsSurrogate(c) == c \in {"hs", "ls"}

MaxUniLen == 4
UniTexts == UNION {[1..n -> CodePoints] : n \in 0..MaxUniLen}

\* text.encode('utf-8', errors='strict') raising nothing, whatever the text
encodable_always(text) == TRUE

\* text.encode('utf-8', errors='strict') raises no UnicodeEncodeError
encodable(text) == \A i \in 1..Len(text) : ~IsSurrogate(text[i])

detect_surrogate_pairs(text) == \E i \in 1..Len(text) : IsSurrogate(text[i])

\* unicodedata.normalize('NFD', text): canonical decomposition
RECURSIVE NFD(_)
NFD(text) ==
    IF text = <<>> THEN <<>>
    ELSE (IF Head(text) = "eacute" THEN <<"e", "acute">> ELSE <<Head(text)>>) \o NFD(Tail(text))

\* canonical composition of a decomposed text
RECURSIVE compose(_)
compose(text) ==
    IF Len(text) < 2 THEN text
    ELSE IF text[1] = "e" /\ text[2] = "acute"
         THEN <<"eacute">> \o compose(Tail(Tail(text)))
         ELSE <<Head(text)>> \o compose(Tail(text))

\* unicodedata.normalize('NFC', text)
NFC(text) == compose(NFD(text))

\* the loop over MATH_SYMBOL_MAPPING.items(): text.replace(unicode_char, replacement)
apply_math_mapping(text) == [i \in 1..Len(text) |-> MATH_SYMBOL_MAPPING(text[i])]

\* the loop over get_surrogate_positions(text): delete (aggressive) or put '?'
RECURSIVE handle_surrogates(_, _)
handle_surrogates(text, aggressive) ==
    IF text = <<>> THEN <<>>
    ELSE (IF IsSurrogate(Head(text))
          THEN (IF aggressive THEN <<>> ELSE <<"?">>)
          ELSE <<Head(text)>>) \o handle_surrogates(Tail(text), aggressive)

\* text.encode('utf-8', errors='replace').decode('utf-8')
encode_replace(text) == [i \in 1..Len(text) |-> IF IsSurrogate(text[i]) THEN "?" ELSE text[i]]

\* normalize_unicode_text returning before its closing NFC normalization
normalize_unicode_text_without_final_nfc(text, aggressive) ==
    IF encodable(text)
    THEN [text |-> NFC(text), modified |-> NFC(text) # text]
    ELSE [text |-> handle_surrogates(apply_math_mapping(NFD(text)), aggressive),
          modified |-> TRUE]

normalize_unicode_text(text, aggressive) ==
    IF encodable(text)
    THEN LET normalized == NFC(text)
         IN  [text |-> normalized, modified |-> normalized # text]
    ELSE LET decomposed == NFD(text)
             mapped == apply_math_mapping(decomposed)
             cleared == IF detect_surrogate_pairs(mapped)
                        THEN handle_surrogates(mapped, aggressive) ELSE mapped
             recomposed == NFC(cleared)
             final == IF encodable(recomposed) THEN recomposed
                      ELSE encode_replace(recomposed)
         IN  [text |-> final, modified |-> TRUE]

\* validate_text_for_api(text)[0]
validate_text_for_api(text) == encodable(text) /\ ~detect_surrogate_pairs(text)

NoNorm == [text |-> <<>>, modified |-> FALSE]
NotSanitized == [done |-> FALSE, text |-> <<>>]

\* translate_page embedding the page text as it was given
sanitize_nothing(text) == text

\* translate_page, "Unicode safety check": the text that goes into the prompt
sanitize(text) ==
    IF validate_text_for_api(text) THEN text
    ELSE LET n == normalize_unicode_text(text, FALSE)
         IN  IF n.modified
             THEN (IF validate_text_for_api(n.text) THEN n.text
                   ELSE normalize_unicode_text(n.text, TRUE).text)
             ELSE text

UniInit ==
    /\ uText \in UniTexts
    /\ uMode \in BOOLEAN
    /\ uOut = NoNorm
    /\ uAgain = NoNorm
    /\ uStep = 0
    /\ uSan = NotSanitized

\* normalize_unicode_text(text, aggressive)
Normalize ==
    /\ uStep = 0
    /\ uOut' = normalize_unicode_text(uText, uMode)
    /\ uStep' = 1
    /\ UNCHANGED <<uText, uMode, uAgain, uSan, wVars, hVars, rlVars, thVars, pgVars, prVars, yVars>>

\* translate_page up to _create_translation_prompt, for the page text uText
Sanitize ==
    /\ ~uSan.done
    /\ uSan' = [done |-> TRUE, text |-> sanitize(uText)]
    /\ UNCHANGED <<uText, uMode, uOut, uAgain, uStep, wVars, hVars, rlVars, thVars, pgVars, prVars, yVars>>

\* normalize_unicode_text called on what the first call returned
NormalizeAgain ==
    /\ uStep = 1
    /\ uAgain' = normalize_unicode_text(uOut.text, uMode)
    /\ uStep' = 2
    /\ UNCHANGED <<uText, uMode, uOut, uSan, wVars, hVars, rlVars, thVars, pgVars, prVars, yVars>>

(***************************************************************************)
(* providers: OpenAIProvider, AnthropicProvider, GeminiProvider            *)
(* What one call of the vendor API does: it returns a response of some     *)
(* shape, or raises.                                                       *)
(*   "text", "whitespace", "empty_text"  a well-formed response            *)
(*   "no_items"  choices / content / candidates is empty                   *)
(*   "no_field"  the first item lacks message.content / text / parts       *)
(*   "no_attr"   the response has no choices / content / candidates        *)
(*   "hang"      no answer until the client gives up after HangTime        *)
(*   "never"     no answer, and the call does not return                   *)
(***************************************************************************)
Vendors == {"openai", "anthropic", "gemini"}
ResponseShapes == {"text", "whitespace", "empty_text", "no_items", "no_field", "no_attr"}
VendorFailures == {"UnicodeEncodeError", "status_429", "status_503", "says_rate_limit",
                   "says_ResourceExhausted", "ConnectionError", "hang", "never"}
VendorOutcomes == ResponseShapes \cup VendorFailures

\* timeout_seconds = 500 of the watchdog loop
timeout_seconds == 500

\* a vendor call that outlasts the watchdog
HangTime == timeout_seconds + 1

\* seconds a vendor call takes
takes(o) == IF o = "hang" THEN HangTime ELSE 0

\* the exception a failing vendor call raises
vendor_exception(o) ==
    CASE o = "UnicodeEncodeError" -> Exc("UnicodeEncodeError", 0, FALSE, 0, "")
      [] o = "status_429" -> Exc("VendorError", 429, FALSE, 0, "429")
      [] o = "status_503" -> Exc("VendorError", 503, FALSE, 0, "")
      [] o = "says_rate_limit" -> Exc("VendorError", 0, FALSE, 0, "rate limit")
      [] o = "says_ResourceExhausted" -> Exc("ResourceExhausted", 0, FALSE, 0, "ResourceExhausted")
      [] OTHER -> Exc("ConnectionError", 0, FALSE, 0, "")

Return(text) == [kind |-> "return", text |-> text, exc |-> NoExc]
Raise(e) == [kind |-> "raise", text |-> <<>>, exc |-> e]
NoOut == [kind |-> "none", text |-> <<>>, exc |-> NoExc]

\* the content of a well-formed response
content(shape) == IF shape = "text" THEN <<"1">> ELSE IF shape = "whitespace" THEN <<" ">> ELSE <<>>

\* _validate_response (OpenAI, Anthropic), _extract_response_text (Gemini)
validate_response(v, shape) ==
    IF shape = "no_attr" /\ v = "openai"
    THEN \* response.choices is read without hasattr
         Raise(Exc("AttributeError", 0, FALSE, 0, ""))
    ELSE IF shape \in {"no_attr", "no_items", "no_field"} THEN Raise(Exc("APIError", 0, FALSE, 0, ""))
    ELSE IF content(shape) = <<>> THEN Raise(Exc("APIError", 0, FALSE, 0, ""))
    ELSE Return(content(shape))

\* "except Exception as e" of translate: does it take the rate-limit branch
is_rate_limit_error(v, e) ==
    IF v = "gemini"
    THEN e.type = "ResourceExhausted" \/ e.says \in {"ResourceExhausted", "429"}
    ELSE IF e.status_code # 0 THEN e.status_code = 429
    ELSE e.says \in {"rate limit", "429"}

\* "except Exception as e" of translate: the exception raised instead of e
wrap_exception(v, e) ==
    IF is_rate_limit_error(v, e) THEN Exc("RateLimitError", 0, FALSE, 0, e.says)
    ELSE IF v # "gemini" /\ e.status_code # 0
         THEN Exc("HTTPStatusError", e.status_code, FALSE, 0, e.says)
    ELSE Exc("APIError", 0, FALSE, 0, e.says)

\* wait_time of the providers' rate-limit branch; _retry_count is never set
provider_wait_time(retry_count) == 60 + retry_count * retry_count * 10

NoLimit == [hit |-> FALSE, last_hit_time |-> 0, waiting_period |-> 0]

\* BaseProvider.check_rate_limit
check_rate_limit(st, t) ==
    IF ~st.hit THEN [ok |-> TRUE, status |-> st]
    ELSE IF t - st.last_hit_time >= st.waiting_period THEN [ok |-> TRUE, status |-> NoLimit]
    ELSE [ok |-> FALSE, status |-> st]

\* BaseProvider.set_rate_limit_hit
provider_set_rate_limit_hit(waiting_period, t) ==
    [hit |-> TRUE, last_hit_time |-> t, waiting_period |-> waiting_period]

\* the prompt translate sends after its own validation step
prepared(pr) ==
    IF validate_text_for_api(pr) THEN pr
    ELSE LET n == normalize_unicode_text(pr, TRUE) IN IF n.modified THEN n.text ELSE pr

\* the call made inside "except UnicodeEncodeError": what it raises is not
\* caught by the "except Exception" clause next to it
recovery_call(v, o2) ==
    IF o2 \in ResponseShapes THEN validate_response(v, o2) ELSE Raise(vendor_exception(o2))

\* the body of translate, once: o1 and o2 are what the vendor does on the
\* first and on a second call; t is the time on entry; sleep is the
\* time.sleep(wait_time) of the rate-limit branch, made before it raises
translate_body(v, pr, o1, o2, st, t) ==
    LET chk == check_rate_limit(st, t)
        sent == prepared(pr)
        first == IF o1 \in ResponseShapes THEN validate_response(v, o1)
                 ELSE Raise(vendor_exception(o1))
    IN  IF ~chk.ok
        THEN [out |-> Raise(Exc("RateLimitError", 0, FALSE, 0, "rate limit")),
              calls |-> 0, time |-> 0, sleep |-> 0, stuck |-> FALSE, pstatus |-> chk.status]
        ELSE IF o1 = "never"
        THEN [out |-> NoOut, calls |-> 1, time |-> 0, sleep |-> 0, stuck |-> TRUE,
              pstatus |-> chk.status]
        ELSE IF first.kind = "return"
        THEN [out |-> first, calls |-> 1, time |-> takes(o1), sleep |-> 0, stuck |-> FALSE,
              pstatus |-> chk.status]
        ELSE IF first.exc.type = "UnicodeEncodeError"
        THEN (IF normalize_unicode_text(sent, TRUE).modified
              THEN [out |-> IF o2 = "never" THEN NoOut ELSE recovery_call(v, o2), calls |-> 2,
                    time |-> takes(o1) + takes(o2), sleep |-> 0, stuck |-> o2 = "never",
                    pstatus |-> chk.status]
              ELSE [out |-> first, calls |-> 1, time |-> takes(o1), sleep |-> 0,
                    stuck |-> FALSE, pstatus |-> chk.status])
        ELSE IF is_rate_limit_error(v, first.exc)
        THEN [out |-> Raise(wrap_exception(v, first.exc)), calls |-> 1,
              time |-> takes(o1), sleep |-> provider_wait_time(1), stuck |-> FALSE,
              pstatus |-> provider_set_rate_limit_hit(provider_wait_time(1), t + takes(o1))]
        ELSE [out |-> Raise(wrap_exception(v, first.exc)), calls |-> 1,
              time |-> takes(o1), sleep |-> 0, stuck |-> FALSE, pstatus |-> chk.status]

\* @retry(stop=stop_after_attempt(5), wait=wait_exponential(multiplier=3, min=10, max=180))
stop_after_attempt == 5
wait_multiplier == 3
wait_min == 10
wait_ceiling == 180

RECURSIVE Pow2(_)
Pow2(n) == IF n <= 0 THEN 1 ELSE 2 * Pow2(n - 1)

\* tenacity wait_exponential after attempt number n
wait_exponential(n) ==
    LET raw == wait_multiplier * Pow2(n - 1)
        capped == Min(raw, wait_ceiling)
    IN  IF capped < wait_min THEN wait_min ELSE capped

(***************************************************************************)
(* One provider.translate call as _call_provider_with_retry makes it: in a *)
(* worker thread, watched by the loop that gives up after timeout_seconds, *)
(* and the result translate_page makes of it.                              *)
(***************************************************************************)
MaxVendorCalls == 1
VendorScripts == UNION {[1..n -> VendorOutcomes] : n \in 0..MaxVendorCalls}

\* prompts: composed, with a decomposed letter, and with a lone surrogate
\* (previous_headers are embedded as the vendor returned them)
Prompts == { <<"e">>, <<"e", "acute">>, <<"e", "hs">> }

\* the exception of the watchdog loop
TimeoutError == Exc("APIError", 0, FALSE, 0, "timeout")

\* what the vendor does on the i-th call from now, for the prompt it is sent
vendor_at(i, key) == IF vcalls + i <= Len(vscript) THEN vscript[vcalls + i] ELSE vsteady[key]

\* the worker is still inside timeout_seconds, or nothing watches it
InTime == round = 2 \/ now - prStart <= timeout_seconds

ProvInit ==
    /\ now = 1
    /\ status = InitialStatus
    /\ lock = NoThread
    /\ vendor \in Vendors
    /\ prompt \in Prompts
    /\ vscript \in VendorScripts
    /\ vcalls = 0
    /\ vsteady \in [{"original", "normalized"} -> VendorOutcomes]
    /\ attempt = 1
    /\ prpc = "attempt"
    /\ round = 1
    /\ pstatus = NoLimit
    /\ prStart = 1
    /\ prOut = NoOut
    /\ prWaits = <<>>
    /\ pageRes = NoResult

\* one attempt of translate, up to its return, its raise, or the sleep of
\* its rate-limit branch
AttemptTranslate ==
    /\ prpc = "attempt"
    /\ InTime
    /\ \E r \in {translate_body(vendor, prompt,
                                 vendor_at(1, IF round = 1 THEN "original" ELSE "normalized"),
                                 vendor_at(2, "normalized"), pstatus, now)} :
           /\ vcalls' = vcalls + r.calls
           /\ now' = now + r.time
           /\ pstatus' = r.pstatus
           /\ prOut' = r.out
           /\ prpc' = IF r.stuck THEN "no_answer"
                      ELSE IF r.out.kind = "return" THEN "returned"
                      ELSE IF r.sleep > 0 THEN "provider_sleep"
                      ELSE "failed"
    /\ UNCHANGED <<status, lock, vendor, prompt, vscript, vsteady, attempt, round, prStart, prWaits,
                   pageRes, wVars, hVars, thVars, pgVars, uVars, yVars>>

\* the rate-limit branch of translate: time.sleep(wait_time) is over, it raises
ProviderWake ==
    /\ prpc = "provider_sleep"
    /\ InTime
    /\ now' = now + pstatus.waiting_period
    /\ prpc' = "failed"
    /\ UNCHANGED <<status, lock, vendor, prompt, vscript, vcalls, vsteady, attempt, round, pstatus,
                   prStart, prOut, prWaits, pageRes, wVars, hVars, thVars, pgVars, uVars, yVars>>

\* the vendor gives no answer: the watchdog loop polls until timeout_seconds are over
Silence ==
    /\ prpc = "no_answer"
    /\ round = 1
    /\ now - prStart <= timeout_seconds
    /\ now' = prStart + timeout_seconds + 1
    /\ UNCHANGED <<status, lock, vendor, prompt, vscript, vcalls, vsteady, attempt, round, pstatus,
                   prStart, prOut, prWaits, prpc, pageRes, wVars, hVars, thVars, pgVars, uVars, yVars>>

\* the retry decorator waits and starts the next attempt
Backoff ==
    /\ prpc = "failed"
    /\ attempt < stop_after_attempt
    /\ InTime
    /\ now' = now + wait_exponential(attempt)
    /\ prWaits' = Append(prWaits, wait_exponential(attempt))
    /\ attempt' = attempt + 1
    /\ prpc' = "attempt"
    /\ UNCHANGED <<status, lock, vendor, prompt, vscript, vcalls, vsteady, round, pstatus, prStart,
                   prOut, pageRes, wVars, hVars, thVars, pgVars, uVars, yVars>>

\* retry=retry_if_exception_type of the repository's exception classes only
Reraise_named_types_only ==
    /\ prpc = "failed"
    /\ \/ attempt = stop_after_attempt
       \/ prOut.exc.type \notin {"APIError", "HTTPStatusError", "RateLimitError", "UnicodeEncodeError"}
    /\ InTime
    /\ prpc' = "raised"
    /\ UNCHANGED <<rlVars, vendor, prompt, vscript, vcalls, vsteady, attempt, round, pstatus, prStart,
                   prOut, prWaits, pageRes, wVars, hVars, thVars, pgVars, uVars, yVars>>

\* the retry decorator gives up: reraise=True
Reraise ==
    /\ prpc = "failed"
    /\ attempt = stop_after_attempt
    /\ InTime
    /\ prpc' = "raised"
    /\ UNCHANGED <<rlVars, vendor, prompt, vscript, vcalls, vsteady, attempt, round, pstatus, prStart,
                   prOut, prWaits, pageRes, wVars, hVars, thVars, pgVars, uVars, yVars>>

\* the watchdog loop finds the worker alive after timeout_seconds: APIError,
\* handle_general_error, and translate_page's except clause
Watchdog ==
    /\ round = 1
    /\ prpc \in {"attempt", "provider_sleep", "failed", "no_answer"}
    /\ now - prStart > timeout_seconds
    /\ pageRes' = page_except(raised_by_handler(TimeoutError))
    /\ prpc' = "timed_out"
    /\ UNCHANGED <<rlVars, vendor, prompt, vscript, vcalls, vsteady, attempt, round, pstatus, prStart,
                   prOut, prWaits, wVars, hVars, thVars, pgVars, uVars, yVars>>

\* translate raised UnicodeEncodeError and normalizing changes the prompt
NeedsPageRecover ==
    /\ prpc = "raised" /\ round = 1
    /\ prOut.exc.type = "UnicodeEncodeError"
    /\ normalize_unicode_text(prompt, TRUE).modified

\* handle_unicode_error: api_call_func(normalized_prompt)
PageRecover ==
    /\ NeedsPageRecover
    /\ round' = 2
    /\ prompt' = normalize_unicode_text(prompt, TRUE).text
    /\ attempt' = 1
    /\ prpc' = "attempt"
    /\ UNCHANGED <<rlVars, vendor, vscript, vcalls, vsteady, pstatus, prStart, prOut, prWaits,
                   pageRes, wVars, hVars, thVars, pgVars, uVars, yVars>>

\* _call_provider_with_retry returns or, through its handler, raises; then
\* translate_page returns or raises
PageReturns ==
    /\ prpc \in {"returned", "raised"}
    /\ ~NeedsPageRecover
    /\ LET e == IF round = 2 THEN Exc("UnicodeEncodeError", 0, FALSE, 0, "") ELSE prOut.exc
           wait_time == wait_time_of(e, get_retry_count(FALSE, 0))
       IN  IF prpc = "returned"
           THEN pageRes' = page_success(prOut.text) /\ UNCHANGED <<now, status>>
           ELSE IF round = 1 /\ rate_limit_branch(e)
           THEN /\ status' = set_waiting_period(set_rate_limit_hit(status, vendor, now),
                                                vendor, wait_time)
                /\ now' = now + wait_time
                /\ pageRes' = page_except(raised_by_handler(e))
           ELSE /\ pageRes' = page_except(IF round = 2 THEN e ELSE raised_by_handler(e))
                /\ UNCHANGED <<now, status>>
    /\ prpc' = "page_done"
    /\ UNCHANGED <<lock, vendor, prompt, vscript, vcalls, vsteady, attempt, round, pstatus, prStart,
                   prOut, prWaits, wVars, hVars, thVars, pgVars, uVars, yVars>>

(***************************************************************************)
(* Specifications                                                          *)
(***************************************************************************)
WaitIdle == wIn = [provider |-> "gemini", retry_count |-> 0, base_wait |-> 0, retry_delay |-> 0]
            /\ wOut = NoResult
HdrIdle == hText = <<>> /\ hOut = <<>> /\ hDone = FALSE /\ hHeaders = <<>> /\ hExtracted = FALSE


PageIdle ==
    /\ prov = "gemini" /\ script = <<>> /\ ppc = "idle" /\ pageNo = 0 /\ pwake = 0
    /\ gate = NoGate /\ callAt = 0 /\ pexc = NoExc /\ hwait = 0 /\ htrace = <<>>
    /\ result = NoResult /\ opc = "off"
UniIdle ==
    /\ uText = <<>> /\ uMode = FALSE /\ uOut = NoNorm /\ uAgain = NoNorm /\ uStep = 0
    /\ uSan = [done |-> FALSE, text |-> <<>>]
ProvIdle ==
    /\ vendor = "openai" /\ prompt = <<>> /\ vscript = <<>> /\ vcalls = 0
    /\ vsteady = [k \in {"original", "normalized"} |-> "text"]
    /\ attempt = 0 /\ prpc = "page_done" /\ round = 1 /\ pstatus = NoLimit /\ prStart = 0
    /\ prOut = NoOut /\ prWaits = <<>> /\ pageRes = NoResult
DocIdle ==
    /\ dEntry = "app_controller" /\ dName = "gemini" /\ dKey = TRUE /\ dExists = FALSE
    /\ dForce = FALSE /\ dTotal = 0 /\ dpc = "skipped" /\ dErr = "none"
    /\ translated_pages = <<>> /\ all_headers = <<>> /\ dCancelled = FALSE /\ dKeyReports = 0
    /\ dCall = "none" /\ dArgs = <<>> /\ dReturns = <<>>
NoLog == [name |-> "none", provider |-> "none", arg |-> 0, tracked |-> {}, before |-> [hit |-> FALSE, last_hit_time |-> 0, waiting_period |-> 0], at |-> 0, locked |-> FALSE, value |-> "none", count |-> 0]
RLOpsIdle == rcall = [name |-> "none", provider |-> "none", arg |-> 0] /\ rlog = NoLog
\* the specifications that follow SpecProv are idle
InstIdle == cClient = 0 /\ cCreated = 0 /\ cW = <<>> /\ cCur = 0
YIdle == DocIdle /\ RLOpsIdle /\ InstIdle
\* the specifications that follow SpecPage are idle
XIdle == UniIdle /\ ProvIdle /\ YIdle
ThreadsIdle ==
    /\ pc = [t \in Threads |-> "idle"] /\ op = [t \in Threads |-> NoOp]
    /\ wake = [t \in Threads |-> 0] /\ ret = [t \in Threads |-> NoRet]

InitWait == WaitInit /\ HdrIdle /\ RLInit /\ PageIdle /\ XIdle
NextWait == ComputeWait
SpecWait == InitWait /\ [][NextWait]_vars

InitHdr == HdrInit /\ WaitIdle /\ RLInit /\ PageIdle /\ XIdle
NextHdr == CleanHeaders \/ ExtractHeaders
SpecHdr == InitHdr /\ [][NextHdr]_vars

InitRL == RLInit /\ WaitIdle /\ HdrIdle /\ PageIdle /\ XIdle
NextRL ==
    \/ Tick
    \/ \E t \in Threads, name \in OpNames, p \in RLProviders :
          \E d \in (IF name = "set_waiting_period" THEN 0..MaxWait ELSE {0}) :
             Acquire(t, name, p, d)
    \/ \E t \in Threads : Body(t)
    \/ \E t \in Threads : CheckBody(t)
    \/ \E t \in Threads : WakeReturn(t)
    \/ \E t \in Threads : Forget(t)
SpecRL == InitRL /\ [][NextRL]_vars

InitPage == PageInit /\ ThreadsIdle /\ WaitIdle /\ HdrIdle /\ XIdle
NextPage ==
    \/ \E dt \in IdleTimes : StartPage(dt)
    \/ PageTick
    \/ GateWake
    \/ Invoke
    \/ HandlerRecord
    \/ HandlerWake
    \/ OrphanMark
    \/ OrphanRecord
SpecPage == InitPage /\ [][NextPage]_vars

InitUni == UniInit /\ WaitIdle /\ HdrIdle /\ RLInit /\ ThreadsIdle /\ PageIdle /\ ProvIdle /\ YIdle
NextUni == Normalize \/ NormalizeAgain \/ Sanitize
SpecUni == InitUni /\ [][NextUni]_vars

InitProv == ProvInit /\ WaitIdle /\ HdrIdle /\ ThreadsIdle /\ PageIdle /\ UniIdle /\ YIdle
NextProv ==
    \/ AttemptTranslate
    \/ ProviderWake
    \/ Silence
    \/ Backoff
    \/ Reraise
    \/ Watchdog
    \/ PageRecover
    \/ PageReturns
SpecProv == InitProv /\ [][NextProv]_vars
\* the vendor answers each prompt the same way for the whole call, and the
\* threads of the call keep running
InitProvLive == InitProv /\ vscript = << >>
SpecProvLive == InitProvLive /\ [][NextProv]_vars /\ WF_vars(NextProv)

(***************************************************************************)
(* One document through a front end: AppController (app_controller.py),    *)
(* GuiAppController (gui_app_controller.py), which build a                 *)
(* TranslatorService, and main.py, which calls translate_text of           *)
(* translator.py page by page. Each page translation is one step; what it  *)
(* returns or raises is drawn from what the page translator can produce.   *)
(* Failures of the text and image extractors and of the file system are    *)
(* left out.                                                               *)
(***************************************************************************)
\* ---- bound of SpecDoc
MaxDocPages == 2

Entries == {"app_controller", "gui", "main"}
SUPPORTED_PROVIDERS == {"gemini", "openai", "claude", "anthropic"}
ProviderNames == SUPPORTED_PROVIDERS \cup {"other"}

validate_provider_name(provider_name) == provider_name \in SUPPORTED_PROVIDERS

\* create_provider: what it raises, "none" when it returns a provider
create_provider(provider_name, api_key) ==
    IF ~api_key THEN "ValidationError"
    ELSE IF provider_name \notin SUPPORTED_PROVIDERS THEN "ValueError"
    ELSE "none"

\* TranslatorService.__init__: what it raises, "none" when the service is built
service_init(provider_name, api_key) ==
    IF ~validate_provider_name(provider_name) THEN "ValueError"
    ELSE IF ~api_key THEN "ValidationError"
    ELSE create_provider(provider_name, api_key)

\* main(): the provider check before any document is processed
main_check(provider_name) ==
    IF provider_name \notin SUPPORTED_PROVIDERS THEN "invalid_provider" ELSE "none"

\* the text of page i (pages differ from one another)
PageText(i) == [j \in 1..i |-> "1"]

\* what the backend answers for page i: with or without a header line
Translations(i) == { PageText(i), <<"#", " ">> \o PageText(i) }

DocFailures == { Exc("APIError", 0, FALSE, 0, ""), Exc("HTTPStatusError", 503, FALSE, 0, "") }

\* translate_text of translator.py when the API key of the provider is not set
missing_key_body == [kind |-> "error_body", text |-> ErrorBody, headers |-> <<>>, exc |-> NoExc]

\* what one page translation call gives back to the loop
PageOutcomes(entry, api_key, i) ==
    IF entry = "main"
    THEN IF ~api_key THEN { missing_key_body }
         ELSE { page_success(t) : t \in Translations(i) }
              \cup { handle_retry_exception(e, 0) : e \in DocFailures }
    ELSE { page_success(t) : t \in Translations(i) }
         \cup { page_except(e) : e \in DocFailures }

\* the page the loop's except clause puts in place of the translation
error_page(page) == <<"#", "#", " ", ".", NL>> \o page

\* one pass of the loop that takes the headers of the page it puts in place
loop_step_keeping_error_headers(i, res, pages, headers) ==
    LET body == IF res.kind = "raised" THEN error_page(PageText(i)) ELSE res.text
        kind == IF res.kind = "raised" THEN "error_page" ELSE res.kind
    IN  [translated_pages |-> Append(pages, [page |-> i, kind |-> kind, text |-> body]),
         all_headers |-> headers \o extract_headers(body)]

\* one pass of "for i, page in enumerate(pages)": try / except Exception / continue
loop_step(i, res, pages, headers) ==
    IF res.kind = "raised"
    THEN [translated_pages |->
              Append(pages, [page |-> i, kind |-> "error_page", text |-> error_page(PageText(i))]),
          all_headers |-> headers]
    ELSE [translated_pages |-> Append(pages, [page |-> i, kind |-> res.kind, text |-> res.text]),
          all_headers |-> headers \o res.headers]

DocInit ==
    /\ dEntry \in Entries /\ dName \in ProviderNames /\ dKey \in BOOLEAN
    /\ dExists \in BOOLEAN /\ dForce \in BOOLEAN /\ dTotal \in 0..MaxDocPages
    /\ dpc = "new" /\ dErr = "none"
    /\ translated_pages = <<>> /\ all_headers = <<>> /\ dCancelled = FALSE /\ dKeyReports = 0
    /\ dCall = "none" /\ dArgs = <<>> /\ dReturns = <<>>

\* AppController.__init__ building the TranslatorService; main() checking the provider name
Construct ==
    /\ dpc = "new"
    /\ LET err == IF dEntry = "main" THEN main_check(dName) ELSE service_init(dName, dKey)
       IN  /\ dErr' = err
           /\ dpc' = IF err = "none" THEN "ready" ELSE "failed"
    /\ UNCHANGED <<dEntry, dName, dKey, dExists, dForce, dTotal, translated_pages, all_headers,
                   dCancelled, dKeyReports, dCall, dArgs, dReturns,
                   wVars, hVars, rlVars, thVars, pgVars, uVars, prVars, roVars, cVars>>

\* process_single_pdf / process_pdf up to the loop
OpenDocument ==
    /\ dpc = "ready"
    /\ dpc' = IF dExists /\ ~dForce THEN "skipped"
              ELSE IF dTotal = 0 /\ dEntry # "main" THEN "no_text"
              ELSE "loop"
    /\ translated_pages' = <<>>
    /\ all_headers' = <<>>
    /\ UNCHANGED <<dEntry, dName, dKey, dExists, dForce, dTotal, dErr, dCancelled, dKeyReports,
                   dCall, dArgs, dReturns, wVars, hVars, rlVars, thVars, pgVars, uVars, prVars, roVars, cVars>>

\* ProcessingThread.cancel, called on the GUI thread: self._is_cancelled = True
Cancel ==
    /\ dEntry = "gui" /\ dpc \in {"ready", "loop"} /\ ~dCancelled
    /\ dCancelled' = TRUE
    /\ UNCHANGED <<dEntry, dName, dKey, dExists, dForce, dTotal, dpc, dErr, translated_pages,
                   all_headers, dKeyReports, dCall, dArgs, dReturns,
                   wVars, hVars, rlVars, thVars, pgVars, uVars, prVars, roVars, cVars>>

\* ProcessingThread.cancel: self.terminate() taking effect on the processing thread
Terminated ==
    /\ dEntry = "gui" /\ dpc \in {"ready", "loop"} /\ dCancelled
    /\ dpc' = "cancelled"
    /\ UNCHANGED <<dEntry, dName, dKey, dExists, dForce, dTotal, dErr, translated_pages,
                   all_headers, dCancelled, dKeyReports, dCall, dArgs, dReturns,
                   wVars, hVars, rlVars, thVars, pgVars, uVars, prVars, roVars, cVars>>

\* the loop of the GUI testing the flag at the top of a pass and finding it clear
PassCheck ==
    /\ dpc = "loop" /\ dEntry = "gui" /\ dCall = "none"
    /\ Len(translated_pages) < dTotal
    /\ ~dCancelled
    /\ dCall' = "checked"
    /\ UNCHANGED <<dEntry, dName, dKey, dExists, dForce, dTotal, dpc, dErr, translated_pages,
                   all_headers, dCancelled, dKeyReports, dArgs, dReturns,
                   wVars, hVars, rlVars, thVars, pgVars, uVars, prVars, roVars, cVars>>

\* the loop of the GUI testing the flag at the top of a pass and finding it set
CancelSeen ==
    /\ dpc = "loop" /\ dEntry = "gui" /\ dCall = "none"
    /\ Len(translated_pages) < dTotal
    /\ dCancelled
    /\ dpc' = "cancelled"
    /\ UNCHANGED <<dEntry, dName, dKey, dExists, dForce, dTotal, dErr, translated_pages,
                   all_headers, dCancelled, dKeyReports, dCall, dArgs, dReturns,
                   wVars, hVars, rlVars, thVars, pgVars, uVars, prVars, roVars, cVars>>

\* previous_headers handed over without the headers collected so far
previous_headers_arg_empty(headers) == <<>>

\* previous_headers=all_headers
previous_headers_arg(headers) == headers

\* the loop calling translate_page / translate_text for the next page
StartPageCall ==
    /\ dpc = "loop"
    /\ dCall = IF dEntry = "gui" THEN "checked" ELSE "none"
    /\ Len(translated_pages) < dTotal
    /\ dCall' = "running"
    /\ dArgs' = Append(dArgs, [page |-> Len(translated_pages) + 1,
                               previous_headers |-> previous_headers_arg(all_headers),
                               returned |-> Len(dReturns),
                               cancelled |-> dCancelled])
    /\ UNCHANGED <<dEntry, dName, dKey, dExists, dForce, dTotal, dpc, dErr, translated_pages,
                   all_headers, dCancelled, dKeyReports, dReturns,
                   wVars, hVars, rlVars, thVars, pgVars, uVars, prVars, roVars, cVars>>

\* the call returning or raising, and the rest of the pass
TranslateOnePage ==
    /\ dpc = "loop"
    /\ dCall = "running"
    /\ LET i == Len(translated_pages) + 1
       IN  \E res \in PageOutcomes(dEntry, dKey, i) :
              LET after == loop_step(i, res, translated_pages, all_headers)
              IN  /\ translated_pages' = after.translated_pages
                  /\ all_headers' = after.all_headers
                  /\ dKeyReports' = IF res = missing_key_body THEN dKeyReports + 1
                                    ELSE dKeyReports
                  /\ dReturns' = Append(dReturns, [page |-> i, kind |-> res.kind,
                                                   headers |-> res.headers])
    /\ dCall' = "none"
    /\ UNCHANGED <<dEntry, dName, dKey, dExists, dForce, dTotal, dpc, dErr, dCancelled, dArgs,
                   wVars, hVars, rlVars, thVars, pgVars, uVars, prVars, roVars, cVars>>

\* write_markdown(output_md, translated_pages, image_paths)
WriteDocument ==
    /\ dpc = "loop"
    /\ dCall = "none"
    /\ Len(translated_pages) = dTotal
    /\ dpc' = "written"
    /\ UNCHANGED <<dEntry, dName, dKey, dExists, dForce, dTotal, dErr, translated_pages,
                   all_headers, dCancelled, dKeyReports, dCall, dArgs, dReturns,
                   wVars, hVars, rlVars, thVars, pgVars, uVars, prVars, roVars, cVars>>

InitDoc == DocInit /\ WaitIdle /\ HdrIdle /\ RLInit /\ ThreadsIdle /\ PageIdle /\ UniIdle /\ ProvIdle
           /\ RLOpsIdle /\ InstIdle
NextDoc ==
    \/ Construct
    \/ OpenDocument
    \/ Cancel
    \/ Terminated
    \/ PassCheck
    \/ CancelSeen
    \/ StartPageCall
    \/ TranslateOnePage
    \/ WriteDocument
SpecDoc == InitDoc /\ [][NextDoc]_vars

(***************************************************************************)
(* One client calling every operation of a RateLimiter, one call after the *)
(* other, and code outside the class writing through the module-level name *)
(* rate_limit_status, which is bound to the dictionary of                  *)
(* global_rate_limiter.                                                    *)
(***************************************************************************)
Client == "A"

\* ---- bound of SpecRLOps: calls and outside writes in one run
MaxRLCalls == 3
Inf == 0 - 1    \* float('inf')

\* operations that put an unknown provider into the dictionary
AddingOps == {"get_status", "set_rate_limit_hit", "set_waiting_period", "reset_rate_limit",
              "check_and_wait_if_needed"}
\* operations that only read the entry of a provider
QueryOps == {"is_rate_limited", "get_remaining_wait_time", "get_elapsed_time_since_hit"}
\* operations on the whole dictionary
WholeOps == {"get_all_status", "clear_all_limits"}
AllOps == AddingOps \cup QueryOps \cup WholeOps

is_rate_limited_inclusive(st, p, t) ==
    IF p \notin DOMAIN st THEN FALSE
    ELSE IF ~st[p].hit THEN FALSE
    ELSE t - st[p].last_hit_time <= st[p].waiting_period

is_rate_limited(st, p, t) ==
    IF p \notin DOMAIN st THEN FALSE
    ELSE IF ~st[p].hit THEN FALSE
    ELSE t - st[p].last_hit_time < st[p].waiting_period

get_remaining_wait_time(st, p, t) ==
    IF p \notin DOMAIN st THEN 0
    ELSE IF ~st[p].hit THEN 0
    ELSE LET remaining == st[p].waiting_period - (t - st[p].last_hit_time)
         IN  IF remaining > 0 THEN remaining ELSE 0

get_elapsed_time_since_hit(st, p, t) ==
    IF p \notin DOMAIN st THEN Inf
    ELSE IF ~st[p].hit THEN Inf
    ELSE t - st[p].last_hit_time

get_all_status(st) == st

\* the dictionary a call leaves behind
status_after(c, st, t) ==
    CASE c.name = "get_status" -> get_status(st, c.provider)
      [] c.name = "set_rate_limit_hit" -> set_rate_limit_hit(st, c.provider, t)
      [] c.name = "set_waiting_period" -> set_waiting_period(st, c.provider, c.arg)
      [] c.name = "reset_rate_limit" -> reset_rate_limit(st, c.provider)
      [] c.name = "check_and_wait_if_needed" -> check_and_wait_if_needed(st, c.provider, t).status
      [] c.name = "clear_all_limits" -> clear_all_limits(st)
      [] OTHER -> st

\* what a call returns
value_of(c, st, t) ==
    CASE c.name = "get_status" -> get_status(st, c.provider)[c.provider]
      [] c.name = "check_and_wait_if_needed" -> check_and_wait_if_needed(st, c.provider, t).value
      [] c.name = "is_rate_limited" -> is_rate_limited(st, c.provider, t)
      [] c.name = "get_remaining_wait_time" -> get_remaining_wait_time(st, c.provider, t)
      [] c.name = "get_elapsed_time_since_hit" -> get_elapsed_time_since_hit(st, c.provider, t)
      [] c.name = "get_all_status" -> get_all_status(st)
      [] OTHER -> "None"

RLOpsInit ==
    /\ now = 1
    /\ status = InitialStatus
    /\ lock = NoThread
    /\ rcall = NoOp
    /\ rlog = NoLog

\* the client calls a method and enters "with self._lock"
Enter(name, p, d) ==
    /\ rcall = NoOp
    /\ rlog.count < MaxRLCalls
    /\ lock = NoThread
    /\ lock' = Client
    /\ rcall' = [name |-> name, provider |-> p, arg |-> d]
    /\ UNCHANGED <<now, status, rlog, thVars, wVars, hVars, pgVars, uVars, prVars, dVars, cVars>>

\* the body of the method, its sleep if it has one, and its return
Leave ==
    /\ rcall # NoOp
    /\ lock = Client
    /\ status' = status_after(rcall, status, now)
    /\ now' = IF rcall.name = "check_and_wait_if_needed"
              THEN now + check_and_wait_if_needed(status, rcall.provider, now).sleep
              ELSE now
    /\ rlog' = [name |-> rcall.name, provider |-> rcall.provider, arg |-> rcall.arg,
                tracked |-> DOMAIN status, before |-> Seen(status, rcall.provider),
                at |-> now, locked |-> lock = Client, value |-> value_of(rcall, status, now),
                count |-> rlog.count + 1]
    /\ lock' = NoThread
    /\ rcall' = NoOp
    /\ UNCHANGED <<thVars, wVars, hVars, pgVars, uVars, prVars, dVars, cVars>>

\* code outside the class: rate_limit_status[p]["hit"] = not rate_limit_status[p]["hit"]
AliasWrite(p) ==
    /\ p \in DOMAIN status
    /\ rlog.count < MaxRLCalls
    /\ status' = [status EXCEPT ![p].hit = ~@]
    /\ rlog' = [name |-> "rate_limit_status", provider |-> p, arg |-> 0,
                tracked |-> DOMAIN status, before |-> status[p],
                at |-> now, locked |-> FALSE, value |-> "None", count |-> rlog.count + 1]
    /\ UNCHANGED <<now, lock, rcall, thVars, wVars, hVars, pgVars, uVars, prVars, dVars, cVars>>

InitRLOps == RLOpsInit /\ ThreadsIdle /\ WaitIdle /\ HdrIdle /\ PageIdle /\ UniIdle /\ ProvIdle
             /\ DocIdle /\ InstIdle
NextRLOps ==
    \/ Tick
    \/ \E name \in AllOps, p \in RLProviders :
          \E d \in (IF name = "set_waiting_period" THEN 0..MaxWait ELSE {0}) : Enter(name, p, d)
    \/ Leave
    \/ \E p \in RLProviders : AliasWrite(p)
SpecRLOps == InitRLOps /\ [][NextRLOps]_vars

(***************************************************************************)
(* A set of concurrent RateLimiter operations, one per thread, started on  *)
(* a limiter that a handler has marked before; time passes while a thread  *)
(* sleeps.  Every thread that is inside a method goes on.                  *)
(***************************************************************************)
\* the dictionary after the constructor, or after a handler's
\* set_rate_limit_hit at time h and set_waiting_period(p, d)
MarkedStatuses ==
    {InitialStatus} \cup
    {set_waiting_period(set_rate_limit_hit(InitialStatus, p, h), p, d) :
        p \in RLProviders, h \in 0..1, d \in 0..MaxWait}

RLLiveInit ==
    /\ now = 1
    /\ status \in MarkedStatuses
    /\ lock = NoThread
    /\ pc = [t \in Threads |-> "idle"]
    /\ op = [t \in Threads |-> NoOp]
    /\ wake = [t \in Threads |-> 0]
    /\ ret = [t \in Threads |-> NoRet]

\* time passes while a thread is in time.sleep
Elapse ==
    /\ \E t \in Threads : pc[t] = "sleeping" /\ now < wake[t]
    /\ now' = now + 1
    /\ UNCHANGED <<status, lock, thVars, wVars, hVars, pgVars, xVars>>

InitRLLive == RLLiveInit /\ WaitIdle /\ HdrIdle /\ PageIdle /\ XIdle
NextRLLive ==
    \/ Tick
    \/ Elapse
    \/ \E t \in Threads, name \in OpNames, p \in RLProviders :
          \E d \in (IF name = "set_waiting_period" THEN 0..MaxWait ELSE {0}) :
             Acquire(t, name, p, d)
    \/ \E t \in Threads : Body(t)
    \/ \E t \in Threads : CheckBody(t)
    \/ \E t \in Threads : WakeReturn(t)
SpecRLLive ==
    /\ InitRLLive
    /\ [][NextRLLive]_vars
    /\ WF_vars(Elapse)
    /\ \A t \in Threads : WF_vars(Body(t)) /\ WF_vars(CheckBody(t)) /\ WF_vars(WakeReturn(t))

(***************************************************************************)
(* One Provider instance.  _call_provider_with_retry runs translate in a   *)
(* worker thread and waits for it; when the watchdog gives up, the worker  *)
(* goes on running and the next page starts a new worker on the same       *)
(* instance.  validate_api_key is called from the caller's own thread.     *)
(* uses is the client of the worker's latest vendor request (0: none yet). *)
(* While the client is None only one thread is inside the instance, so     *)
(* the test and the assignment of _initialize_client are one step.         *)
(***************************************************************************)
\* ---- bound of SpecInst: worker threads started on the instance
MaxWorkers == 2
Workers == 1..MaxWorkers

\* _initialize_client creating a client on every call
initialize_client_unguarded(client, created, ok) ==
    IF ok THEN [client |-> created + 1, created |-> created + 1, raised |-> FALSE]
    ELSE [client |-> client, created |-> created, raised |-> TRUE]

\* _initialize_client: ok tells whether the import and the constructor succeed
initialize_client(client, created, ok) ==
    IF client # 0 THEN [client |-> client, created |-> created, raised |-> FALSE]
    ELSE IF ok THEN [client |-> created + 1, created |-> created + 1, raised |-> FALSE]
    ELSE [client |-> client, created |-> created, raised |-> TRUE]

\* where a worker is after a failed attempt: the decorator waits, or reraises
after_failure(w) == IF cW[w].attempt < stop_after_attempt THEN "backoff" ELSE "over"

InstInit ==
    /\ cClient = 0
    /\ cCreated = 0
    /\ cW = [w \in Workers |-> [pc |-> "unborn", attempt |-> 0, uses |-> 0]]
    /\ cCur = 0

zVars == <<wVars, hVars, rlVars, thVars, pgVars, uVars, prVars, dVars, roVars>>

\* _call_provider_with_retry: worker_thread.start()
StartWorker(w) ==
    /\ cCur = 0
    /\ cW[w].pc = "unborn"
    /\ \A v \in Workers : v < w => cW[v].pc # "unborn"
    /\ cW' = [cW EXCEPT ![w] = [pc |-> "start", attempt |-> 1, uses |-> 0]]
    /\ cCur' = w
    /\ UNCHANGED <<cClient, cCreated, zVars>>

\* translate, from its entry to the vendor request it sends
EnterTranslate(w, ok) ==
    /\ cW[w].pc = "start"
    /\ LET r == initialize_client(cClient, cCreated, ok)
       IN  /\ cClient' = r.client
           /\ cCreated' = r.created
           /\ cW' = [cW EXCEPT ![w].pc = IF r.raised THEN after_failure(w) ELSE "in_call",
                               ![w].uses = IF r.raised THEN @ ELSE r.client]
    /\ UNCHANGED <<cCur, zVars>>

\* the vendor request of worker w ends: translate returns, or raises
VendorAnswers(w, success) ==
    /\ cW[w].pc = "in_call"
    /\ cW' = [cW EXCEPT ![w].pc = IF success THEN "over" ELSE after_failure(w)]
    /\ UNCHANGED <<cClient, cCreated, cCur, zVars>>

\* the retry decorator's wait is over
NextAttempt(w) ==
    /\ cW[w].pc = "backoff"
    /\ cW' = [cW EXCEPT ![w].pc = "start", ![w].attempt = @ + 1]
    /\ UNCHANGED <<cClient, cCreated, cCur, zVars>>

\* the waiting loop finds the worker dead
Join ==
    /\ cCur # 0
    /\ cW[cCur].pc = "over"
    /\ cCur' = 0
    /\ UNCHANGED <<cClient, cCreated, cW, zVars>>

\* the waiting loop finds elapsed > timeout_seconds and raises; the worker
\* thread is left running.  The waits of the decorator add up to less than
\* timeout_seconds, so the worker has spent time in a vendor request.
Abandon ==
    /\ cCur # 0
    /\ cW[cCur].pc \in {"in_call", "backoff"}
    /\ cW[cCur].uses # 0
    /\ cCur' = 0
    /\ UNCHANGED <<cClient, cCreated, cW, zVars>>

\* validate_api_key in the caller's thread, between two pages
ValidateKey(ok) ==
    /\ cCur = 0
    /\ LET r == initialize_client(cClient, cCreated, ok)
       IN  cClient' = r.client /\ cCreated' = r.created
    /\ UNCHANGED <<cW, cCur, zVars>>

InitInst == InstInit /\ WaitIdle /\ HdrIdle /\ RLInit /\ ThreadsIdle /\ PageIdle /\ UniIdle /\ ProvIdle
            /\ DocIdle /\ RLOpsIdle
NextInst ==
    \/ \E w \in Workers : StartWorker(w)
    \/ \E w \in Workers, ok \in BOOLEAN : EnterTranslate(w, ok)
    \/ \E w \in Workers, success \in BOOLEAN : VendorAnswers(w, success)
    \/ \E w \in Workers : NextAttempt(w)
    \/ Join
    \/ Abandon
    \/ \E ok \in BOOLEAN : ValidateKey(ok)
SpecInst == InitInst /\ [][NextInst]_vars

(***************************************************************************)
(* Claims                                                                  *)
(***************************************************************************)

\* C8: calculate_dynamic_wait_time(provider, n, base) is
\* min(base * f + n * n * 10 * f, 300) with f the provider's factor (1.0 for
\* an unknown provider); it never exceeds 300 seconds and does not decrease
\* when n grows by one.
C8_DynamicWaitCappedMonotone ==
    wOut.kind = "waits" =>
        LET f == IF wIn.provider = "openai" THEN 12 ELSE 10
            v == wIn.base_wait * f + wIn.retry_count * wIn.retry_count * 10 * f
        IN  /\ wOut.dyn = (IF v > 3000 THEN 3000 ELSE v)
            /\ wOut.dyn <= 300 * Tenths
            /\ wOut.dyn <= wOut.dynNext

\* the cap is what bounds the result: openai, n = 5, base = 60 gives 372 s uncapped
C8_Witness ==
    /\ wOut.kind = "waits"
    /\ wIn.provider = "openai" /\ wIn.retry_count = 5 /\ wIn.base_wait = 60
    /\ wOut.dyn = 3000

\* ---- notions of claim C10
IsMarkerLine(line) == lstrip(line) # <<>> /\ Head(lstrip(line)) = "#"
\* the text after the marker
HeaderText(line) == strip_marker(lstrip(line))
\* marker depth of a line that starts with the marker
MarkerDepth(line) == SpanHash(line)

\* C10 as stated: the lines keep their number and order; every marker line
\* whose text after the marker begins with a numeric label gets marker depth
\* 1 + (dots of the label); every other line is unchanged.
C10_AnyLabelRewritten ==
    hDone =>
        LET in == split(hText)
            out == split(hOut)
        IN  /\ Len(out) = Len(in)
            /\ \A i \in 1..Len(in) :
                 IF IsMarkerLine(in[i]) /\ LabelLen(HeaderText(in[i])) > 0
                 THEN MarkerDepth(out[i]) =
                          1 + count_dots(Take(HeaderText(in[i]), LabelLen(HeaderText(in[i]))))
                 ELSE out[i] = in[i]

\* C10 amended: the label counts only when a whitespace character follows it.
\* Such a marker line becomes (1 + dots) markers, one space, and the text that
\* followed the old marker; every other line is unchanged.
C10_LabelThenSpaceRewritten ==
    hDone =>
        LET in == split(hText)
            out == split(hOut)
        IN  /\ Len(out) = Len(in)
            /\ \A i \in 1..Len(in) :
                 LET txt == HeaderText(in[i])
                     n == LabelLen(txt)
                 IN  IF IsMarkerLine(in[i]) /\ n > 0 /\ Len(txt) > n /\ IsSpace(txt[n + 1])
                     THEN /\ MarkerDepth(out[i]) = 1 + count_dots(Take(txt, n))
                          /\ out[i] = hashes(MarkerDepth(out[i])) \o <<" ">> \o txt
                     ELSE out[i] = in[i]

\* a two-line text whose first line "##1 " was moved from depth 2 to depth 1
C10_Witness ==
    /\ hDone
    /\ Len(split(hText)) = 2
    /\ split(hText)[1] = <<"#", "#", "1", " ">>
    /\ split(hOut)[1] = <<"#", " ", "1", " ">>
    /\ split(hOut)[2] = split(hText)[2]

\* C2 as stated: in every reachable RateLimiter state and for every tracked
\* provider, hit = true implies waiting_period > 0 and last_hit_time set.
C2_HitImpliesPeriodAndTime ==
    \A p \in DOMAIN status :
        status[p].hit => (status[p].waiting_period > 0 /\ status[p].last_hit_time # 0)

\* C3: a check_and_wait_if_needed call that found the provider hit with less
\* than waiting_period elapsed returns true, after sleeping, and not before
\* last_hit_time + waiting_period; one that found the period elapsed returns
\* false without sleeping and leaves hit = false; one that found the provider
\* not hit (or not tracked) returns false without sleeping.
C3_CheckAndWaitBlocksUntilDue ==
    \A t \in Threads :
        (pc[t] = "done" /\ ret[t].name = "check_and_wait_if_needed") =>
            LET s == ret[t].snap
                elapsed == ret[t].called - s.last_hit_time
            IN  IF s.hit /\ elapsed < s.waiting_period
                THEN /\ ret[t].value = TRUE
                     /\ ret[t].slept
                     /\ now >= s.last_hit_time + s.waiting_period
                ELSE IF s.hit
                THEN ret[t].value = FALSE /\ ~ret[t].slept /\ ~ret[t].hit_after
                ELSE ret[t].value = FALSE /\ ~ret[t].slept

\* a call issued at the moment of the hit has slept the whole period and returned true
C3_Witness ==
    \E t \in Threads :
        /\ pc[t] = "done" /\ ret[t].name = "check_and_wait_if_needed"
        /\ ret[t].snap.hit /\ ret[t].snap.waiting_period > 0
        /\ ret[t].called = ret[t].snap.last_hit_time
        /\ ret[t].value = TRUE /\ ret[t].slept

\* C4: a thread sleeping inside check_and_wait_if_needed does not hold the
\* lock; the lock is then free, or held by a thread running a method body
\* that releases it at its next step.
C4_SleepWithoutLock ==
    \A t \in Threads :
        pc[t] = "sleeping" =>
            /\ lock # t
            /\ lock = NoThread \/ pc[lock] = "locked"

\* while A still sleeps for a provider, B has entered a method on the same provider
C4_Witness ==
    /\ pc["A"] = "sleeping" /\ now < wake["A"]
    /\ lock = "B" /\ pc["B"] = "locked"
    /\ op["B"].provider = op["A"].provider

\* the translate_page call has returned or raised and nothing else has
\* touched the rate limiter
PageOver == ppc = "idle" /\ pageNo > 0 /\ opc = "off"

\* C1 as stated: whatever way the provider call failed, translate_page does
\* not raise; it returns a non-empty error body and an empty header list.
C1_FailureReturnsErrorBody ==
    (PageOver /\ pexc # NoExc /\ result.kind # "ok") =>
        /\ result.kind = "error_body"
        /\ result.text # <<>>
        /\ result.headers = <<>>

\* C5 as stated: when the first provider call of a page fails with
\* HTTPStatusError 429 and the next one would succeed, the provider is hit
\* while the handler waits, and translate_page returns the translation with
\* hit = false.
C5_Http429ThenSuccess ==
    (opc = "off" /\ pageNo <= 1 /\ pexc.type = "HTTPStatusError" /\ pexc.status_code = 429) =>
        /\ ppc = "handler_sleep" => status[prov].hit
        /\ (ppc = "idle" /\ pageNo = 1 /\ NextOutcome.type = "ok") =>
               (result.kind = "ok" /\ ~status[prov].hit)

\* the failures C6 speaks of: HTTPStatusError 429, or a type or message that
\* signals rate limiting or resource exhaustion
RateLimitSignal(e) ==
    \/ e.type = "HTTPStatusError" /\ e.status_code = 429
    \/ e.type \in {"RateLimitError", "ResourceExhausted"}
    \/ e.says \in {"rate limit", "ResourceExhausted"}

\* C6 as stated: after such a failure the handler has marked the provider
\* hit, recorded a positive waiting period, slept, and raised, in this order.
C6_MarkRecordSleepRaise ==
    (PageOver /\ RateLimitSignal(pexc)) =>
        /\ htrace = <<"mark", "record", "sleep", "raise">>
        /\ hwait > 0
        /\ status[prov].waiting_period = hwait

\* C7: a translate_page call whose rate gate found the provider hit with
\* waiting period d issues its provider call no earlier than last_hit_time + d.
C7_NoCallBeforePeriodElapsed ==
    (callAt > 0 /\ gate.hit) => callAt >= gate.last_hit_time + gate.waiting_period

\* the gate found the provider hit with part of the period left, and the
\* provider call was made when the period was over
C7_Witness ==
    /\ callAt > 0 /\ gate.hit /\ gate.waiting_period > 0
    /\ gate.at < gate.last_hit_time + gate.waiting_period
    /\ callAt >= gate.last_hit_time + gate.waiting_period

\* C9 as stated: the period recorded and slept is the vendor's retry-after
\* value plus a positive margin, and without a vendor value exactly
\* calculate_dynamic_wait_time(provider, attempt, 60).
C9_WaitIsRetryAfterOrDynamic ==
    (ppc = "handler_sleep") =>
        /\ pwake - callAt = hwait
        /\ IF retry_delay_of(pexc) > 0
           THEN hwait > retry_delay_of(pexc)
           ELSE hwait * Tenths =
                    calculate_dynamic_wait_time(prov, get_retry_count(FALSE, 0), 60)

\* the line begins with the marker
StartsWithMarker(line) == line # <<>> /\ Head(line) = "#"

\* e is the line without the spaces before and after it
IsTrimOf(e, line) ==
    \E j \in 1..Len(line), k \in 1..Len(line) :
        /\ j <= k /\ e = SubSeq(line, j, k)
        /\ line[j] # " " /\ line[k] # " "
        /\ \A i \in 1..Len(line) : (i < j \/ i > k) => line[i] = " "

\* C11 as stated: extract_headers(text) is the sequence of the lines of text
\* that begin with the marker, in their order, one entry per line.
C11_HeadersAreTheMarkerLines ==
    hExtracted => hHeaders = SelectSeq(split(hText), StartsWithMarker)

\* C11 amended: the marker lines are those whose first non-blank character
\* is the marker, and each entry is its line without the surrounding blanks.
C11_HeadersAreTheTrimmedMarkerLines ==
    hExtracted =>
        LET marker_lines == SelectSeq(split(hText), IsMarkerLine)
        IN  /\ Len(hHeaders) = Len(marker_lines)
            /\ \A i \in 1..Len(marker_lines) : IsTrimOf(hHeaders[i], marker_lines[i])

\* two marker lines around a plain line, the first one indented
C11_Witness ==
    /\ hExtracted
    /\ hText = <<" ", "#", NL, "1", NL, "#">>
    /\ hHeaders = << <<"#">>, <<"#">> >>

\* C12: normalizing what normalize_unicode_text returned, in the same mode,
\* returns the same text with modified = false.
C12_NormalizeIdempotent ==
    uStep = 2 => (uAgain.text = uOut.text /\ uAgain.modified = FALSE)

\* a surrogate between a letter and its accent was removed, the two were
\* composed, and the second call left the result alone
C12_Witness ==
    /\ uStep = 2 /\ uMode = TRUE
    /\ uText = <<"e", "hs", "acute">>
    /\ uOut = [text |-> <<"eacute">>, modified |-> TRUE]
    /\ uAgain = [text |-> <<"eacute">>, modified |-> FALSE]

\* C13: in aggressive mode, a text made only of lookup-table code points and
\* surrogates comes out without any surrogate and strictly encodable.
C13_AggressiveOutputIsSafe ==
    (uStep >= 1 /\ uMode = TRUE
        /\ \A i \in 1..Len(uText) : uText[i] \in MathSymbols \/ IsSurrogate(uText[i])) =>
        /\ ~detect_surrogate_pairs(uOut.text)
        /\ validate_text_for_api(uOut.text)
        /\ \A i \in 1..Len(uOut.text) : uOut.text[i] \notin {"hs", "ls"}

\* a styled letter between two surrogates: only the plain letter is left
C13_Witness ==
    /\ uStep >= 1 /\ uMode = TRUE
    /\ uText = <<"hs", "me", "ls">>
    /\ uOut.text = <<"e">>

\* C14 as stated: in either mode the output holds no code point of the
\* lookup table; each one of the input has become its ASCII equivalent.
C14_NoMathSymbolLeft ==
    uStep >= 1 =>
        /\ \A i \in 1..Len(uOut.text) : uOut.text[i] \notin MathSymbols
        /\ (\A i \in 1..Len(uText) : uText[i] \in MathSymbols \cup {"?"}) =>
               uOut.text = [i \in 1..Len(uText) |-> IF uText[i] = "me" THEN "e" ELSE uText[i]]

\* the vendor API answers every call with a completion that is empty or
\* holds only whitespace
BackendAnswersBlank ==
    /\ \A i \in 1..Len(vscript) : vscript[i] \in {"empty_text", "whitespace"}
    /\ \A k \in DOMAIN vsteady : vsteady[k] \in {"empty_text", "whitespace"}

\* C15 as stated: with such a backend translate_page returns a successful
\* result whose text is empty or whitespace only; it does not raise and does
\* not return an error body.
C15_BlankCompletionSucceeds ==
    (prpc = "page_done" /\ BackendAnswersBlank) =>
        /\ pageRes.kind = "ok"
        /\ \A i \in 1..Len(pageRes.text) : pageRes.text[i] = " "

\* the vendor API fails in no other way than by the shape of its responses
\* (and by rejecting the encoding of the prompt)
OnlyResponsesAtFault ==
    /\ \A i \in 1..Len(vscript) : vscript[i] \in ResponseShapes \cup {"UnicodeEncodeError"}
    /\ \A k \in DOMAIN vsteady : vsteady[k] \in ResponseShapes \cup {"UnicodeEncodeError"}

IsAPIError(e) == e.type \in {"APIError", "HTTPStatusError", "RateLimitError", "ValidationError"}

\* C17 as stated: whatever the shape of the responses, translate returns a
\* non-empty text or raises APIError or a subtype (UnicodeEncodeError when
\* the vendor rejected the encoding); no other exception leaves it.
C17_MalformedResponseIsAPIError ==
    (round = 1 /\ OnlyResponsesAtFault) =>
        /\ prpc = "returned" => prOut.text # <<>>
        /\ prpc = "raised" => (IsAPIError(prOut.exc) \/ prOut.exc.type = "UnicodeEncodeError")

\* C18 as stated: when the watchdog gives up on a provider call, the page
\* goes the way of any APIError: it is retried, and ends in a translation or
\* in a degraded result; the timeout is not raised to the caller.
C18_TimeoutFollowsRetryPath ==
    prpc = "timed_out" =>
        /\ now - prStart > timeout_seconds
        /\ pageRes.kind \in {"ok", "error_body"}

\* C19 as stated: the retry loop around the vendor call makes at most 5
\* attempts with waits between floor and ceiling, and the loop around the
\* page re-attempts the page: a backend that fails on fewer calls than there
\* are attempts and answers afterwards gets the page translated.
C19_TwoNestedRetryLoops ==
    /\ attempt <= stop_after_attempt
    /\ \A i \in 1..Len(prWaits) : wait_min <= prWaits[i] /\ prWaits[i] <= wait_ceiling
    /\ (prpc \in {"page_done", "timed_out"}
          /\ Len(vscript) < stop_after_attempt
          /\ \A k \in DOMAIN vsteady : vsteady[k] = "text") => pageRes.kind = "ok"

(***************************************************************************)
(* C16: if the API key of the selected provider is not configured,         *)
(* construction fails at once with ValidationError, and no page            *)
(* translation call ever finds or reports the missing key.                 *)
(***************************************************************************)
C16_MissingKeyFailsConstruction ==
    (~dKey /\ validate_provider_name(dName) /\ dpc # "new")
        => (dpc = "failed" /\ dErr = "ValidationError" /\ dKeyReports = 0)

(***************************************************************************)
(* C20: for a document of n pages and any pattern of page failures, the    *)
(* per-document loop produces exactly n page bodies in page order and      *)
(* writes the document; a failed page adds no headers.                     *)
(***************************************************************************)
DocEnded == dpc \in {"written", "skipped", "no_text", "cancelled"}

RECURSIVE HeadersOfTranslated(_)
HeadersOfTranslated(pages) ==
    IF pages = <<>> THEN <<>>
    ELSE (IF Head(pages).kind = "ok" THEN extract_headers(Head(pages).text) ELSE <<>>)
         \o HeadersOfTranslated(Tail(pages))

AllPagesInOrder ==
    /\ Len(translated_pages) = dTotal
    /\ \A i \in 1..dTotal : translated_pages[i].page = i

RECURSIVE ConcatHeaders(_)
ConcatHeaders(returns) ==
    IF returns = <<>> THEN <<>> ELSE Head(returns).headers \o ConcatHeaders(Tail(returns))

C21_PagesSequentialWithPriorHeaders ==
    /\ Len(dArgs) <= Len(dReturns) + 1
    /\ \A k \in 1..Len(dArgs) :
          /\ dArgs[k].page = k
          /\ dArgs[k].returned = k - 1
          /\ dArgs[k].previous_headers = ConcatHeaders(SubSeq(dReturns, 1, k - 1))

C21_Witness ==
    /\ dCall = "running" /\ Len(dArgs) = 2 /\ dEntry = "gui"
    /\ dReturns[1].kind = "ok"
    /\ dArgs[2].previous_headers = dReturns[1].headers
    /\ dArgs[2].previous_headers # <<>>

(***************************************************************************)
(* C26: once the cancellation flag of the document is set, no further page *)
(* translation call is started and no Markdown output is written for the   *)
(* cancelled document.                                                     *)
(***************************************************************************)
C26_NothingAfterCancel ==
    /\ \A k \in 1..Len(dArgs) : ~dArgs[k].cancelled
    /\ dpc = "written" => ~dCancelled

(***************************************************************************)
(* C22: the RateLimiter is the only holder of cool-down state: whenever a  *)
(* provider call is refused or delayed because the provider is cooling     *)
(* down, the RateLimiter's status of that provider shows hit, and no       *)
(* other record says "cooling down" while the RateLimiter says "not hit".  *)
(***************************************************************************)
\* BaseProvider._rate_limit_status says the provider is cooling down
ProviderRecordCoolingDown ==
    pstatus.hit /\ now - pstatus.last_hit_time < pstatus.waiting_period

C22_RateLimiterHoldsAllCoolDown ==
    (prpc = "provider_sleep" \/ ProviderRecordCoolingDown) => status[vendor].hit

\* the last finished call was set_rate_limit_hit for a provider that was
\* already marked as hit
RepeatedHit ==
    /\ rlog.name = "set_rate_limit_hit"
    /\ rlog.provider \in rlog.tracked
    /\ rlog.before.hit

\* C23: calling set_rate_limit_hit again for a provider that is already
\* marked as hit leaves its hit flag, its last_hit_time and its
\* waiting_period as they were.
C23_RepeatedHitChangesNothing ==
    RepeatedHit => status[rlog.provider] = rlog.before

\* C23 (amended): calling set_rate_limit_hit again for a provider that is
\* already marked as hit keeps the hit flag set and the waiting_period, and
\* sets last_hit_time to the time of the repeated call.
C23_RepeatedHitRestampsOnly ==
    RepeatedHit => status[rlog.provider] = [rlog.before EXCEPT !.last_hit_time = rlog.at]

C23_Witness ==
    /\ RepeatedHit
    /\ rlog.before.last_hit_time < rlog.at
    /\ rlog.before.waiting_period > 0
    /\ status[rlog.provider].last_hit_time = rlog.at

\* the last finished call was a RateLimiter method
MethodReturned == rlog.name \in AllOps

\* C24: the set of tracked providers never shrinks, a provider is in it in
\* the default state after its first reference by any operation, and every
\* operation returns for an unknown provider.
C24_FirstReferenceTracks ==
    MethodReturned =>
        /\ rlog.tracked \subseteq DOMAIN status
        /\ rlog.name \notin WholeOps => rlog.provider \in DOMAIN status
        /\ (rlog.name \notin WholeOps /\ rlog.provider \notin rlog.tracked) =>
              status[rlog.provider] = status_after(rlog, (rlog.provider :> DefaultStatus), rlog.at)[rlog.provider]

\* C24 (amended): the set of tracked providers never shrinks; get_status,
\* set_rate_limit_hit, set_waiting_period, reset_rate_limit and
\* check_and_wait_if_needed put an unknown provider into it, in the default
\* state on which the operation then acts; is_rate_limited,
\* get_remaining_wait_time and get_elapsed_time_since_hit answer for an
\* unknown provider as for one never hit (False, 0, infinity) and do not
\* put it into the set; every operation returns for an unknown provider.
C24_AddingOpsTrack ==
    MethodReturned =>
        /\ rlog.tracked \subseteq DOMAIN status
        /\ rlog.name \in AddingOps => rlog.provider \in DOMAIN status
        /\ (rlog.name \in AddingOps /\ rlog.provider \notin rlog.tracked) =>
              status[rlog.provider] = status_after(rlog, (rlog.provider :> DefaultStatus), rlog.at)[rlog.provider]
        /\ (rlog.name \in QueryOps /\ rlog.provider \notin rlog.tracked) =>
              /\ DOMAIN status = rlog.tracked
              /\ rlog.value = CASE rlog.name = "is_rate_limited" -> FALSE
                                [] rlog.name = "get_remaining_wait_time" -> 0
                                [] rlog.name = "get_elapsed_time_since_hit" -> Inf

C24_Witness ==
    /\ rlog.name = "clear_all_limits"
    /\ "custom" \in rlog.tracked
    /\ "custom" \in DOMAIN status

\* C25: the status dictionary is written only by a RateLimiter method that
\* holds the lock.
C25_WritesOnlyUnderLock ==
    rlog # NoLog => (rlog.name \in AllOps /\ rlog.locked)

\* the vendor call an attempt of translate is about to make raises UnicodeEncodeError
FirstCallEncodingFailure ==
    /\ prpc = "attempt"
    /\ check_rate_limit(pstatus, now).ok
    /\ vendor_at(1, IF round = 1 THEN "original" ELSE "normalized") = "UnicodeEncodeError"

\* C27: an attempt whose vendor call fails with an encoding failure makes at
\* most one further vendor call, with the normalized prompt, and when the
\* attempt fails it fails with the original UnicodeEncodeError.
C27_EncodingFailureSurfacesOriginal ==
    [][(FirstCallEncodingFailure /\ prpc' \in {"failed", "provider_sleep"}) =>
          /\ vcalls' <= vcalls + 2
          /\ prOut'.exc.type = "UnicodeEncodeError"]_vars

\* C28: in the retry loop around translate a failed attempt, whatever the
\* type of its exception, is followed by the next attempt while fewer than
\* stop_after_attempt attempts were made; after the failure of attempt
\* stop_after_attempt the loop raises that last failure; after a successful
\* attempt the loop makes no further attempt.
C28_RetryLoopRunsToCeiling ==
    [][/\ (prpc = "failed" /\ prpc' \notin {"failed", "timed_out"}) =>
             IF attempt < stop_after_attempt
             THEN prpc' = "attempt" /\ attempt' = attempt + 1
             ELSE prpc' = "raised" /\ attempt' = stop_after_attempt /\ prOut' = prOut
       /\ (prpc = "returned" /\ prpc' # "returned") =>
             prpc' = "page_done" /\ attempt' = attempt /\ vcalls' = vcalls]_vars

C28_Witness ==
    /\ prpc = "raised"
    /\ attempt = stop_after_attempt
    /\ Len(prWaits) = stop_after_attempt - 1
    /\ prOut.exc.type = "AttributeError"

\* C29: the wait the rate-limit branch of translate computes in attempt k
\* is the one of retry count k.
C29_AttemptNumberReachesHandlers ==
    prpc = "provider_sleep" => pstatus.waiting_period = provider_wait_time(attempt)

\* a provider output with a marker of the wrong depth: '#1.1 1'
WrongDepthOutput == <<"#", "1", ".", "1", " ", "1">>
\* '## 1.1 1'
CorrectedDepth == <<"#", "#", " ", "1", ".", "1", " ", "1">>

\* C30: translate_page calls the provider only after its rate gate has
\* returned, corrects the heading levels of the provider's text and takes
\* the headers from the corrected text: the provider output '#1.1 1'
\* gives the text '## 1.1 1' and the headers ['## 1.1 1'].
C30_StepsInFixedOrder ==
    /\ ppc = "gate_sleep" => callAt = 0
    /\ callAt > 0 => (gate.at > 0 /\ callAt >= gate.at)
    /\ result.kind = "ok" =>
          /\ \E o \in Responses \cup {DefaultOutcome.text} : result.text = clean_markdown_headers(o)
          /\ result.headers = extract_headers(result.text)
    /\ page_success(WrongDepthOutput).text = CorrectedDepth
    /\ page_success(WrongDepthOutput).headers = <<CorrectedDepth>>

C30_Witness ==
    /\ ppc = "idle"
    /\ gate.hit /\ gate.at < gate.last_hit_time + gate.waiting_period
    /\ callAt > gate.at
    /\ result.kind = "ok"
    /\ result.text = <<"#", "#", " ", "1", ".", "1", " ">>
    /\ result.headers = << <<"#", "#", " ", "1", ".", "1">> >>

\* C38: correcting the heading levels of a corrected text changes nothing,
\* and a text has as many headers after the correction as before it.
C38_CleanIdempotentKeepsHeaderCount ==
    hDone =>
        /\ clean_markdown_headers(hOut) = hOut
        /\ Len(extract_headers(hOut)) = Len(extract_headers(hText))

\* a text with a header whose level the correction changed
C38_Witness ==
    /\ hDone
    /\ hOut # hText
    /\ Len(extract_headers(hText)) >= 1
    /\ clean_markdown_headers(hOut) = hOut

\* the status queries
ReadOps == QueryOps \cup {"get_status", "get_all_status"}

\* C36: a status query leaves hit, last_hit_time and waiting_period of every
\* provider as they were and returns without sleeping, and at every instant
\* is_rate_limited(P) holds exactly when get_remaining_wait_time(P) > 0.
C36_QueriesReadOnlyAndConsistent ==
    /\ [][(rcall.name \in ReadOps /\ rcall' = NoOp) =>
             /\ \A p \in DOMAIN status' \cup RLProviders : Seen(status', p) = Seen(status, p)
             /\ now' = now
             /\ rcall.name = "is_rate_limited" =>
                   (rlog'.value <=> get_remaining_wait_time(status, rcall.provider, now) > 0)]_vars
    /\ [](\A p \in RLProviders :
             is_rate_limited(status, p, now) <=> get_remaining_wait_time(status, p, now) > 0)

\* a query that found its provider cooling down
C36_Witness ==
    /\ rlog.name = "is_rate_limited"
    /\ rlog.value = TRUE
    /\ status[rlog.provider].hit
    /\ get_remaining_wait_time(status, rlog.provider, now) > 0

\* thread t is inside a RateLimiter method
InOperation(t) == pc[t] \in {"locked", "sleeping"}

\* C35: the lock is held only by a thread that is inside a method body, it
\* passes from a thread to free only by a step of that thread and never
\* from one thread to another, it is free when no thread is inside a method
\* body - also while or after a thread sleeps in check_and_wait_if_needed -
\* and every thread that entered a method leaves it.
C35_LockDisciplineAndProgress ==
    /\ [](/\ lock # NoThread => pc[lock] = "locked"
          /\ (\A t \in Threads : pc[t] # "locked") => lock = NoThread)
    /\ [][/\ (lock # NoThread /\ lock' # lock) => (lock' = NoThread /\ pc'[lock] # pc[lock])
          /\ (lock = NoThread /\ lock' # NoThread) => pc'[lock'] = "locked"]_vars
    /\ \A t \in Threads : InOperation(t) ~> (pc[t] = "done" /\ lock # t)

\* A has slept in check_and_wait_if_needed and returned while B ran a
\* method of its own; the lock is free again
C35_Witness ==
    /\ pc["A"] = "done" /\ ret["A"].name = "check_and_wait_if_needed" /\ ret["A"].value = TRUE
    /\ pc["B"] = "done"
    /\ lock = NoThread

\* C33: once the handler of the abandoned call has made its two calls,
\* set_rate_limit_hit and set_waiting_period(d), the provider is marked as
\* hit for as long as less than d has passed since the hit, whatever
\* check_and_wait_if_needed calls of translate_page ran in between.
C33_ConcurrentHitNotLost ==
    (opc = "recorded" /\ now - status[prov].last_hit_time < status[prov].waiting_period) =>
        status[prov].hit

\* C31: the text translate_page embeds in its prompt passes
\* validate_text_for_api, whatever the page text was; a text that passed
\* already is embedded as it is.
C31_ComposedTextIsSafe ==
    uSan.done =>
        /\ validate_text_for_api(uSan.text)
        /\ validate_text_for_api(uText) => uSan.text = uText

\* a page text with a lone surrogate went through the sanitizing step
C31_Witness ==
    /\ uSan.done
    /\ ~validate_text_for_api(uText)
    /\ uSan.text # uText
    /\ validate_text_for_api(uSan.text)

\* the workers whose vendor request is in flight
InFlight == {w \in Workers : cW[w].pc = "in_call"}

\* C32: an instance creates at most one client, it has created it when a
\* vendor request is in flight, and every request in flight uses it.
C32_ClientCreatedOnce ==
    /\ cCreated <= 1
    /\ cClient = cCreated
    /\ \A w \in InFlight : cClient # 0 /\ cW[w].uses = cClient

\* the client survived a failed creation, an abandoned worker and a
\* validate_api_key call, and the second worker's request uses it
C32_Witness ==
    /\ cCreated = 1
    /\ cW[1].attempt >= 2
    /\ cW[2].pc = "in_call"
    /\ cW[2].uses = 1

\* C34: at most one vendor request is in flight on a Provider instance.
C34_OneCallInFlight == Cardinality(InFlight) <= 1

\* translate_page has returned or raised
PageCallOver == prpc \in {"page_done", "timed_out"}

\* C37: every translate_page call returns or raises in the end, also when a
\* vendor request gets no answer, and it never issues more than three
\* requests per allowed attempt.
C37_PageCallEndsWithBoundedRequests ==
    /\ <>PageCallOver
    /\ [](vcalls <= 3 * stop_after_attempt)

====
